---- MODULE Spec2Model ----
(***************************************************************************)
(* SEO-MAX: the sitewide crawl-and-score engine of src/unnamed/part_002    *)
(* (SEOChecker and SitewideAnalyzer).                                      *)
(*                                                                         *)
(* Strings are sequences of characters; a URL is the record that            *)
(* `new URL(..)` parses it into, and Href(u) is its serialisation.          *)
(* Every `await` of the source is a point where the model lets other       *)
(* callbacks run: the code between two awaits is one action.               *)
(***************************************************************************)
EXTENDS Integers, Sequences, FiniteSets, TLC

VARIABLES
    now,            \* Date.now(), in milliseconds
    web,            \* the site: fetch target -> list of hrefs on that page (revealed when first served)
    cache,          \* SEOChecker.cache of each checker: cache key -> [results, timestamp]
    keyword,        \* SEOChecker.keyword of each checker
    results,        \* SEOChecker.results of each checker
    calls,          \* the invocations of SEOChecker.analyzeWebsite
    fetch,          \* an invocation of SEOChecker.fetchWithCORS on its own: [url, f]
    netlog,         \* what the network saw of it: the backends asked and what each answered
    isRunning,      \* SitewideAnalyzer.isRunning
    analyzedPages,  \* SitewideAnalyzer.analyzedPages
    runs,           \* the invocations of SitewideAnalyzer.analyzeSitewide / discoverInternalPages
    stats           \* currentSitewideResults of the sitewide UI (<<>>: null or undefined); in the
                    \* specifications of a single function, the value it computed

vars == <<now, web, cache, keyword, results, calls, fetch, netlog, isRunning, analyzedPages, runs, stats>>

(***************************************************************************)
(* Bounds of the model.                                                     *)
(***************************************************************************)
MaxPagesBound == 4      \* maxPages ranges over 0..MaxPagesBound
MaxTicks == 3           \* number of clock advances explored
MaxStatPages == 3       \* length of the page lists given to calculateSitewideStats
MaxRankPages == 7       \* length of the page lists whose issues are ranked
MaxSitePages == 2       \* maxPages of a sitewide run ranges over 0..MaxSitePages
MaxHeadingPieces == 4   \* a heading is made of at most this many pieces
MaxSkipped == 3         \* anchors that link analysis skips, at the head of a page's anchors
MaxLinks == 22          \* anchors that link analysis does not skip, after them
MaxRequests == 2        \* requests the relay serves, one after the other
MaxSaves == 11          \* analyses saved, one per clock tick

(***************************************************************************)
(* Strings.                                                                 *)
(***************************************************************************)
Range(s) == {s[i] : i \in 1..Len(s)}

\* String.prototype.includes: t occurs in s as a contiguous substring
Includes(s, t) ==
    \E i \in 0..(Len(s) - Len(t)) : \A j \in 1..Len(t) : s[i + j] = t[j]

\* String.prototype.endsWith
EndsWith(s, t) ==
    /\ Len(t) <= Len(s)
    /\ \A j \in 1..Len(t) : s[Len(s) - Len(t) + j] = t[j]

\* String.prototype.toLowerCase, on the characters the model uses
LowerChar(c) ==
    CASE c = "K" -> "k" [] c = "L" -> "l" [] c = "R" -> "r" [] c = "O" -> "o" [] OTHER -> c
ToLowerCase(s) == [i \in 1..Len(s) |-> LowerChar(s[i])]

RECURSIVE Concat(_)
Concat(ss) == IF ss = <<>> THEN <<>> ELSE Head(ss) \o Concat(Tail(ss))

\* \s and \w of a regular expression, on the characters the model uses
IsSpace(c) == c = " "
IsWordChar(c) == c \notin {" ", "-", "."}

RECURSIVE TrimStart(_)
TrimStart(s) == IF s # <<>> /\ IsSpace(Head(s)) THEN TrimStart(Tail(s)) ELSE s

RECURSIVE TrimEnd(_)
TrimEnd(s) ==
    IF s # <<>> /\ IsSpace(s[Len(s)]) THEN TrimEnd(SubSeq(s, 1, Len(s) - 1)) ELSE s

\* String.prototype.trim
Trim(s) == TrimEnd(TrimStart(s))

(***************************************************************************)
(* URLs.  An absolute URL is [host, path, query, hash]: host and path are   *)
(* strings, query is the list of parameter names, hash is the fragment.     *)
(* path = <<>> is a URL typed without the trailing slash ("https://a"),     *)
(* which the URL parser serialises as "https://a/".                         *)
(* A mailto: or tel: URL has an empty host and the scheme as the first       *)
(* element of its path.  A string that `new URL` rejects is kept in the     *)
(* same shape, with an empty host and its characters as the path.           *)
(***************************************************************************)
Url(h, p, q, f) == [host |-> h, path |-> p, query |-> q, hash |-> f]
Malformed(chars) == Url(<<>>, chars, <<>>, <<>>)
IsOpaque(u) == u.host = <<>> /\ u.path # <<>> /\ u.path[1] \in {"mailto:", "tel:"}
IsUrl(u) == u.host # <<>> \/ IsOpaque(u)

HostA == <<"a">>                  \* the seed's host
HostSub == <<"s", ".", "a">>      \* a subdomain of it
HostExt == <<"e">>                \* another site

Root == <<"/">>
PathP == <<"/", "p">>
PathQ == <<"/", "q">>
PathR == <<"/", "r">>

\* the string of a URL value, as template literals and String.includes see it
Href(u) ==
    IF u.host # <<>>
    THEN <<"h", ":">> \o u.host \o u.path
         \o (IF u.query = <<>> THEN <<>> ELSE <<"?">> \o u.query)
         \o (IF u.hash = <<>> THEN <<>> ELSE <<"#">> \o u.hash)
    ELSE u.path

\* new URL(s).href: the parser's normal form (an empty path becomes "/")
Normal(u) == [u EXCEPT !.path = IF u.path = <<>> THEN Root ELSE u.path]

\* what an HTTP request for u asks the server for: the fragment is not sent
Target(u) == [Normal(u) EXCEPT !.hash = <<>>]

(***************************************************************************)
(* hrefs as they stand in a page's anchors: absolute, relative to the page, *)
(* or a string no base can resolve ("http://[").                           *)
(***************************************************************************)
Abs(u) == [kind |-> "abs", u |-> u]
Rel(p, q, f) == [kind |-> "rel", u |-> Url(<<>>, p, q, f)]
BadHref == [kind |-> "bad", u |-> Malformed(<<"[">>)]

\* SitewideAnalyzer.resolveUrl: <<absolute URL>>, or <<>> for null
resolveUrl(href, baseUrl) ==
    IF ~IsUrl(baseUrl) THEN <<>>      \* new URL(href, base) throws on a base it cannot parse
    ELSE CASE href.kind = "abs" -> <<Normal(href.u)>>
           [] href.kind = "rel" ->
                IF href.u.path = <<>>
                THEN <<Url(baseUrl.host, Normal(baseUrl).path,
                           IF href.u.query = <<>> THEN baseUrl.query ELSE href.u.query,
                           href.u.hash)>>
                ELSE <<Url(baseUrl.host, href.u.path, href.u.query, href.u.hash)>>
           [] OTHER -> <<>>

\* SitewideAnalyzer.isInternalUrl
isInternalUrl(url, baseUrl, includeSubdomains) ==
    IF ~IsUrl(url) \/ ~IsUrl(baseUrl) THEN FALSE
    ELSE IF includeSubdomains
         THEN EndsWith(url.host, baseUrl.host) \/ EndsWith(baseUrl.host, url.host)
         ELSE url.host = baseUrl.host

paramsToRemove == {"utm_source", "utm_medium", "utm_campaign", "fbclid", "gclid"}

\* cleanUrl that only re-serialises the URL
cleanUrl_keep(url) == IF ~IsUrl(url) THEN url ELSE Normal(url)

\* SitewideAnalyzer.cleanUrl
cleanUrl(url) ==
    IF ~IsUrl(url) THEN url
    ELSE [Normal(url) EXCEPT
            !.hash = <<>>,
            !.query = SelectSeq(url.query, LAMBDA p : p \notin paramsToRemove)]

(***************************************************************************)
(* Inputs.                                                                  *)
(***************************************************************************)
Seed == Url(HostA, Root, <<>>, <<>>)
PageP == Url(HostA, PathP, <<>>, <<>>)
Keywords == {<<>>, <<"K">>}

\* the link lists a page may carry
LinkLists ==
    { <<>>,
      <<Rel(PathP, <<>>, <<>>)>>,
      <<Rel(Root, <<>>, <<>>), Rel(PathP, <<>>, <<>>), Rel(PathQ, <<>>, <<>>)>>,
      <<Rel(PathP, <<>>, <<"f">>), Rel(PathP, <<"utm_source">>, <<>>), Rel(PathR, <<>>, <<>>)>>,
      <<Abs(Url(HostExt, Root, <<>>, <<>>)), BadHref, Abs(Url(HostSub, <<>>, <<>>, <<>>))>>,
      <<Abs(Url(HostA, PathP, <<>>, <<>>))>> }

(***************************************************************************)
(* SEOChecker.fetchWithCORS.                                                *)
(* A backend's answer (raw): the request threw (network error, timeout), or *)
(* it answered with an HTTP status and a body that is no JSON ("none"), a   *)
(* JSON envelope without contents ("nocontents") or one with contents       *)
(* ("contents") whose status field is dstatus (0: absent).                  *)
(***************************************************************************)
Statuses == {200, 404}
Raw == [thrown : {TRUE}, status : {0}, json : {"none"}, dstatus : {0}]
       \cup [thrown : {FALSE}, status : Statuses, json : {"none", "nocontents"}, dstatus : {0}]
       \cup [thrown : {FALSE}, status : Statuses, json : {"contents"}, dstatus : {0} \cup Statuses]

\* Response.ok
Ok(status) == status >= 200 /\ status <= 299

\* encodeURIComponent, on the characters the model uses
EncodeChar(c) ==
    CASE c = "/" -> "%2F" [] c = ":" -> "%3A" [] c = "?" -> "%3F"
      [] c = "#" -> "%23" [] c = "[" -> "%5B" [] OTHER -> c
encodeURIComponent(s) == [i \in 1..Len(s) |-> EncodeChar(s[i])]

\* the backends in the order fetchWithCORS asks them
Backends == <<"direct", "own", "allorigins", "corsanywhere", "thingproxy">>

\* the `proxies` array
proxies(url) ==
    << <<"/", "api", "/", "proxy", "?url=">> \o encodeURIComponent(Href(url)),
       <<"h", ":", "api", ".", "allorigins", ".", "win", "/", "get", "?url=">>
            \o encodeURIComponent(Href(url)),
       <<"h", ":", "cors-anywhere", ".", "herokuapp", ".", "com", "/">> \o Href(url),
       <<"h", ":", "thingproxy", ".", "freeboard", ".", "io", "/", "fetch", "/">> \o Href(url) >>

\* the direct request: <<response>> when it is returned, <<>> when the proxies are tried
DirectAttempt(raw) ==
    IF ~raw.thrown /\ Ok(raw.status) THEN <<[status |-> raw.status]>> ELSE <<>>

\* one iteration of the proxy loop: <<response>> when it returns, <<>> when it goes on
ProxyAttempt(proxyUrl, raw) ==
    IF raw.thrown THEN <<>>
    ELSE IF Includes(proxyUrl, <<"/", "api", "/", "proxy">>)
         THEN \* response.json() throws on a body that is no JSON: caught, next proxy
              IF Ok(raw.status) /\ raw.json = "contents"
              THEN <<[status |-> IF raw.dstatus # 0 THEN raw.dstatus ELSE 200]>>
              ELSE <<>>
         ELSE IF Includes(proxyUrl, <<"allorigins", ".", "win">>)
         THEN \* data.status?.http_code || 200
              IF Ok(raw.status) /\ raw.json = "contents"
              THEN <<[status |-> IF raw.dstatus # 0 THEN raw.dstatus ELSE 200]>>
              ELSE <<>>
         ELSE IF Ok(raw.status) THEN <<[status |-> raw.status]>> ELSE <<>>

\* A fetchWithCORS invocation: the backends asked so far (the last one is
\* awaited while pc = "pending") and the status of the response returned.
NoFetch == [pc |-> "none", tried |-> <<>>, status |-> 0]
NewFetch == [pc |-> "pending", tried |-> <<Backends[1]>>, status |-> 0]

\* fetchWithCORS with the loop index not advanced: the failed backend is asked again
fetchWithCORS_again(f, url, raw) ==
    LET i == Len(f.tried) - 1
        r == IF i = 0 THEN DirectAttempt(raw) ELSE ProxyAttempt(proxies(url)[i], raw)
    IN  IF r # <<>>
        THEN [pc |-> "returned", tried |-> f.tried, status |-> r[1].status]
        ELSE IF i < Len(proxies(url))
             THEN [pc |-> "pending", tried |-> Append(f.tried, Backends[i + 1]), status |-> 0]
             ELSE [pc |-> "thrown", tried |-> f.tried, status |-> 0]

\* fetchWithCORS with the loop bound one short: it gives up before the last proxy
fetchWithCORS_short(f, url, raw) ==
    LET i == Len(f.tried) - 1
        r == IF i = 0 THEN DirectAttempt(raw) ELSE ProxyAttempt(proxies(url)[i], raw)
    IN  IF r # <<>>
        THEN [pc |-> "returned", tried |-> f.tried, status |-> r[1].status]
        ELSE IF i < Len(proxies(url)) - 1
             THEN [pc |-> "pending", tried |-> Append(f.tried, Backends[i + 2]), status |-> 0]
             ELSE [pc |-> "thrown", tried |-> f.tried, status |-> 0]

\* the awaited backend answers `raw`: return, ask the next backend, or throw
fetchWithCORS(f, url, raw) ==
    LET i == Len(f.tried) - 1
        r == IF i = 0 THEN DirectAttempt(raw) ELSE ProxyAttempt(proxies(url)[i], raw)
    IN  IF r # <<>>
        THEN [pc |-> "returned", tried |-> f.tried, status |-> r[1].status]
        ELSE IF i < Len(proxies(url))
             THEN [pc |-> "pending", tried |-> Append(f.tried, Backends[i + 2]), status |-> 0]
             ELSE [pc |-> "thrown", tried |-> f.tried, status |-> 0]

\* fetchWithCORS called on its own (as WebsiteCrawler does)
NoFetchCall == [url |-> Malformed(<<>>), f |-> NoFetch]

\* a URL whose own text carries the strings the proxy loop looks for
ApiProxyUrl == Url(HostA, <<"/", "api", "/", "proxy">>, <<>>, <<>>)
AllOriginsUrl == Url(<<"allorigins", ".", "win">>, Root, <<>>, <<>>)
FetchUrls == {Seed, ApiProxyUrl, AllOriginsUrl, Malformed(<<"x">>)}

FetchCall(url) ==
    /\ fetch.f.pc \in {"none", "returned", "thrown"}
    /\ fetch' = [url |-> url, f |-> NewFetch]
    /\ netlog' = <<>>
    /\ UNCHANGED <<now, web, cache, keyword, results, calls, isRunning, analyzedPages, runs, stats>>

FetchAnswer(raw) ==
    /\ fetch.f.pc = "pending"
    /\ fetch' = [fetch EXCEPT !.f = fetchWithCORS(fetch.f, fetch.url, raw)]
    /\ netlog' = Append(netlog, [backend |-> fetch.f.tried[Len(fetch.f.tried)],
                                 thrown |-> raw.thrown, status |-> raw.status, json |-> raw.json])
    /\ UNCHANGED <<now, web, cache, keyword, results, calls, isRunning, analyzedPages, runs, stats>>

(***************************************************************************)
(* Pages.  A document is what the extractor reads from a body: the title    *)
(* (its text and its character count), the number of H1 elements, the meta  *)
(* description, the images and the canonical link.  The anchors of a page   *)
(* are its link list (web).                                                 *)
(***************************************************************************)
DocGood == [hasTitle |-> TRUE, titleText |-> <<"s", "e", "o">>, titleLen |-> 45,
            h1 |-> << <<"L", "i", "n", "k", "s", " ", "K", "o", "p">> >>,
            hasMeta |-> TRUE, metaLen |-> 140, imgTotal |-> 2, imgWithAlt |-> 2,
            hasCanonical |-> TRUE]
DocPoor == [hasTitle |-> TRUE, titleText |-> <<"k">>, titleLen |-> 10,
            h1 |-> << <<"O", "v", "e", "r">>, <<"K", "o", "p", " ">> >>,
            hasMeta |-> FALSE, metaLen |-> 0, imgTotal |-> 3, imgWithAlt |-> 1,
            hasCanonical |-> FALSE]
DocBare == [hasTitle |-> FALSE, titleText |-> <<>>, titleLen |-> 0, h1 |-> <<>>,
            hasMeta |-> FALSE, metaLen |-> 0, imgTotal |-> 0, imgWithAlt |-> 0,
            hasCanonical |-> FALSE]
Docs == {DocGood, DocPoor, DocBare}

\* Math.round(n / d) for n >= 0, d > 0
Round(n, d) == (2 * n + d) \div (2 * d)

\* SEOChecker.checkStatus
checkStatus(response) ==
    [statusCode |-> response.status,
     isSuccess |-> response.status >= 200 /\ response.status < 300]

\* SEOChecker.analyzeTitle; hasKeyword is "null" when this.keyword is empty
analyzeTitle(doc, thisKeyword) ==
    [exists |-> doc.hasTitle,
     length |-> doc.titleLen,
     isOptimal |-> doc.titleLen >= 30 /\ doc.titleLen <= 60,
     hasKeyword |-> IF thisKeyword = <<>> THEN "null"
                    ELSE IF Includes(ToLowerCase(doc.titleText), thisKeyword) THEN "true"
                    ELSE "false"]

\* the replacement of /^Links\b\s*/i by ''
StripLinks(c) ==
    IF /\ Len(c) >= 5
       /\ ToLowerCase(SubSeq(c, 1, 5)) = <<"l", "i", "n", "k", "s">>
       /\ (Len(c) = 5 \/ ~IsWordChar(c[6]))
    THEN TrimStart(SubSeq(c, 6, Len(c)))
    ELSE c

\* the replacement of /\s*\bRechtsaf\b$/i by ''
StripRechtsaf(c) ==
    LET n == Len(c)
    IN  IF /\ n >= 8
           /\ ToLowerCase(SubSeq(c, n - 7, n)) = <<"r", "e", "c", "h", "t", "s", "a", "f">>
           /\ (n = 8 \/ ~IsWordChar(c[n - 8]))
        THEN TrimEnd(SubSeq(c, 1, n - 8))
        ELSE c

\* cleanHeadingText without the fallback to the trimmed text
cleanHeadingText_bare(text) == Trim(StripRechtsaf(StripLinks(Trim(text))))

\* SEOChecker.cleanHeadingText
cleanHeadingText(text) ==
    IF text = <<>> THEN text
    ELSE LET cleaned == Trim(StripRechtsaf(StripLinks(Trim(text))))
         IN  IF cleaned # <<>> THEN cleaned ELSE Trim(text)

\* SEOChecker.analyzeH1, called as analyzeH1(doc): its keyword parameter is undefined
analyzeH1(doc) ==
    LET h1Texts == [i \in 1..Len(doc.h1) |-> cleanHeadingText(Trim(doc.h1[i]))]
    IN  [count |-> Len(doc.h1),
         texts |-> h1Texts,
         isOptimal |-> Len(doc.h1) = 1,
         keywordPresent |-> FALSE,
         isEmpty |-> \E i \in 1..Len(h1Texts) : Len(h1Texts[i]) = 0]

\* SEOChecker.analyzeMeta
analyzeMeta(doc) ==
    [exists |-> doc.hasMeta,
     length |-> doc.metaLen,
     isOptimal |-> doc.metaLen >= 120 /\ doc.metaLen <= 160]

\* SEOChecker.analyzeImages
analyzeImages(doc) ==
    [total |-> doc.imgTotal,
     withAlt |-> doc.imgWithAlt,
     withoutAlt |-> doc.imgTotal - doc.imgWithAlt,
     percentage |-> IF doc.imgTotal > 0 THEN Round(doc.imgWithAlt * 100, doc.imgTotal) ELSE 100]

\* SEOChecker.analyzeCanonical
analyzeCanonical(doc) == [exists |-> doc.hasCanonical]

\* `!href`: the attribute is the empty string
IsEmptyHref(href) ==
    href.kind = "rel" /\ href.u.path = <<>> /\ href.u.query = <<>> /\ href.u.hash = <<>>

\* the hrefs analyzeLinks does not skip: not empty, not starting with '#',
\* 'mailto:' or 'tel:'
Qualifies(href) ==
    /\ ~IsEmptyHref(href)
    /\ ~(href.kind = "rel" /\ href.u.path = <<>> /\ href.u.query = <<>> /\ href.u.hash # <<>>)
    /\ ~(href.kind = "abs" /\ IsOpaque(href.u))

\* SEOChecker.analyzeLinks: the first 20 anchors, classified against baseUrl
analyzeLinks(links, baseUrl) ==
    LET first == SubSeq(links, 1, IF Len(links) < 20 THEN Len(links) ELSE 20)
        seen == {i \in 1..Len(first) : Qualifies(first[i])}
        good == {i \in seen : resolveUrl(first[i], baseUrl) # <<>>}
        internal == {i \in good : resolveUrl(first[i], baseUrl)[1].host = baseUrl.host}
    IN  [total |-> Len(links),
         internal |-> Cardinality(internal),
         external |-> Cardinality(good \ internal),
         broken |-> Cardinality(seen \ good),
         checked |-> Cardinality(good)]

\* SEOChecker.analyzeURL, for a url that `new URL` accepts
analyzeURL(url) ==
    [isShort |-> Len(Href(url)) <= 100,
     hasParameters |-> url.query # <<>>,
     isReadable |-> \A i \in 1..Len(Normal(url).path) :
                        Normal(url).path[i] \notin {" ", "_", "%"}]

\* the object analyzeWebsite assigns to this.results
Facts(url, kw, thisKeyword, response, doc, links) ==
    [defined |-> TRUE,
     url |-> url,
     keyword |-> kw,
     status |-> checkStatus(response),
     title |-> analyzeTitle(doc, thisKeyword),
     h1 |-> analyzeH1(doc),
     meta |-> analyzeMeta(doc),
     images |-> analyzeImages(doc),
     canonical |-> analyzeCanonical(doc),
     links |-> analyzeLinks(links, url),
     urlStructure |-> analyzeURL(url)]

\* this.results = {} of the constructor: every field is undefined
NoResults ==
    [Facts(Malformed(<<>>), <<>>, <<>>, [status |-> 0], DocBare, <<>>) EXCEPT !.defined = FALSE]

\* calculateScore with the weights of the links and the URL criteria exchanged
calculateScore_swapped(res) ==
    LET pass(cond, weight) == IF res.defined /\ cond THEN weight ELSE 0
        score == pass(res.status.isSuccess, 15)
                 + pass(res.title.exists /\ res.title.isOptimal, 15)
                 + pass(res.h1.isOptimal, 10)
                 + pass(res.meta.exists /\ res.meta.isOptimal, 15)
                 + pass(res.images.percentage >= 80, 10)
                 + pass(res.canonical.exists, 10)
                 + pass(res.links.broken = 0, 15)
                 + pass(res.urlStructure.isShort /\ res.urlStructure.isReadable, 10)
        maxScore == 15 + 15 + 10 + 15 + 10 + 10 + 15 + 10
    IN  Round(score * 100, maxScore)

\* SEOChecker.calculateScore over this.results
calculateScore(res) ==
    LET pass(cond, weight) == IF res.defined /\ cond THEN weight ELSE 0
        score == pass(res.status.isSuccess, 15)
                 + pass(res.title.exists /\ res.title.isOptimal, 15)
                 + pass(res.h1.isOptimal, 10)
                 + pass(res.meta.exists /\ res.meta.isOptimal, 15)
                 + pass(res.images.percentage >= 80, 10)
                 + pass(res.canonical.exists, 10)
                 + pass(res.links.broken = 0, 10)
                 + pass(res.urlStructure.isShort /\ res.urlStructure.isReadable, 15)
        maxScore == 15 + 15 + 10 + 15 + 10 + 10 + 10 + 15
    IN  Round(score * 100, maxScore)

(***************************************************************************)
(* SEOChecker.analyzeWebsite and its cache.                                 *)
(* Two checkers exist: the global seoChecker of the single-page UI ("ui")   *)
(* and the one the SitewideAnalyzer constructs for itself ("sw").           *)
(***************************************************************************)
cacheExpiry == 5 * 60 * 1000

Checkers == {"ui", "sw"}
UiCalls == {"u1", "u2"}         \* single-page analyses (analyzeWebsite of the UI)
RunIds == {"r1", "r2"}          \* invocations of analyzeSitewide; each awaits one page call at a time
CallIds == UiCalls \cup RunIds
CheckerOf(c) == IF c \in RunIds THEN "sw" ELSE "ui"

EmptyCache == [k \in {} |-> [results |-> NoResults, timestamp |-> 0]]

\* `${url}-${keyword}`
cacheKey(url, kw) == Href(url) \o <<"-">> \o kw

\* the lookup without the age test
cacheHit_anyAge(c, key, t) == key \in DOMAIN c

\* the cache lookup of analyzeWebsite
cacheHit(c, key, t) == key \in DOMAIN c /\ t - c[key].timestamp < cacheExpiry

\* cleanCache that drops every entry older than the current instant
cleanCache_eager(c, t) ==
    LET keep == {k \in DOMAIN c : ~(t - c[k].timestamp > 0)}
    IN  [k \in keep |-> c[k]]

\* SEOChecker.cleanCache
cleanCache(c, t) ==
    LET keep == {k \in DOMAIN c : ~(t - c[k].timestamp > cacheExpiry)}
    IN  [k \in keep |-> c[k]]

IdleCall == [pc |-> "idle", url |-> Malformed(<<>>), keyword |-> <<>>, f |-> NoFetch,
             ret |-> NoResults]

\* analyzeWebsite(url, kw) up to its first await; sweep is Math.random() < 0.1
AWBegin(c, url, kw, sweep) ==
    LET k == CheckerOf(c)
        swept == IF sweep THEN cleanCache(cache[k], now) ELSE cache[k]
        key == cacheKey(url, kw)
    IN  /\ keyword' = [keyword EXCEPT ![k] = ToLowerCase(kw)]
        /\ cache' = [cache EXCEPT ![k] = swept]
        /\ IF cacheHit(swept, key, now)
           THEN /\ results' = [results EXCEPT ![k] = swept[key].results]
                /\ calls' = [calls EXCEPT ![c] = [pc |-> "returned", url |-> url, keyword |-> kw,
                                                  f |-> NoFetch, ret |-> swept[key].results]]
           ELSE /\ results' = results
                /\ calls' = [calls EXCEPT ![c] = [pc |-> "fetching", url |-> url, keyword |-> kw,
                                                  f |-> NewFetch, ret |-> NoResults]]

\* the single-page UI starts an analysis
AnalyzeWebsite(c, url, kw, sweep) ==
    /\ c \in UiCalls
    /\ calls[c].pc \in {"idle", "returned", "thrown"}
    /\ AWBegin(c, url, kw, sweep)
    /\ UNCHANGED <<now, web, fetch, netlog, isRunning, analyzedPages, runs, stats>>

\* the links of the page served for url: those of the site, chosen when the page
\* is served for the first time
LinksServed(url) ==
    IF Target(url) \in DOMAIN web THEN {web[Target(url)]} ELSE LinkLists

Reveal(url, links) == (Target(url) :> links) @@ web

\* analyzeWebsite whose catch block stores an entry for the failed analysis
AWFetched_cacheFailure(c, raw, docs) ==
    LET k == CheckerOf(c)
        call == calls[c]
        f2 == fetchWithCORS(call.f, call.url, raw)
        failure == (cacheKey(call.url, call.keyword) :>
                        [results |-> NoResults, timestamp |-> now]) @@ cache[k]
    IN  /\ call.pc = "fetching"
        /\ CASE f2.pc = "pending" ->
                  /\ calls' = [calls EXCEPT ![c].f = f2]
                  /\ UNCHANGED <<web, cache, results>>
             [] f2.pc = "thrown" ->
                  /\ calls' = [calls EXCEPT ![c].f = f2, ![c].pc = "thrown"]
                  /\ cache' = [cache EXCEPT ![k] = failure]
                  /\ UNCHANGED <<web, results>>
             [] OTHER ->
                  \E doc \in docs, links \in LinksServed(call.url) :
                    LET res == Facts(call.url, call.keyword, keyword[k],
                                     [status |-> f2.status], doc, links)
                    IN  /\ web' = Reveal(call.url, links)
                        /\ IF IsUrl(call.url)
                           THEN /\ results' = [results EXCEPT ![k] = res]
                                /\ cache' = [cache EXCEPT ![k] =
                                       (cacheKey(call.url, call.keyword) :>
                                           [results |-> res, timestamp |-> now]) @@ cache[k]]
                                /\ calls' = [calls EXCEPT ![c].f = f2, ![c].pc = "returned",
                                                          ![c].ret = res]
                           ELSE /\ calls' = [calls EXCEPT ![c].f = f2, ![c].pc = "thrown"]
                                /\ cache' = [cache EXCEPT ![k] = failure]
                                /\ UNCHANGED results
        /\ UNCHANGED <<now, keyword, fetch, netlog, isRunning, analyzedPages, runs, stats>>

\* the awaited backend of call c answers; when fetchWithCORS returns, the rest of
\* analyzeWebsite runs: extraction, this.results, cache.set (docs: the documents
\* the site may serve)
AWFetched(c, raw, docs) ==
    LET k == CheckerOf(c)
        call == calls[c]
        f2 == fetchWithCORS(call.f, call.url, raw)
    IN  /\ call.pc = "fetching"
        /\ CASE f2.pc = "pending" ->
                  /\ calls' = [calls EXCEPT ![c].f = f2]
                  /\ UNCHANGED <<web, cache, results>>
             [] f2.pc = "thrown" ->
                  /\ calls' = [calls EXCEPT ![c].f = f2, ![c].pc = "thrown"]
                  /\ UNCHANGED <<web, cache, results>>
             [] OTHER ->
                  \E doc \in docs, links \in LinksServed(call.url) :
                    LET res == Facts(call.url, call.keyword, keyword[k],
                                     [status |-> f2.status], doc, links)
                    IN  /\ web' = Reveal(call.url, links)
                        /\ IF IsUrl(call.url)
                           THEN /\ results' = [results EXCEPT ![k] = res]
                                /\ cache' = [cache EXCEPT ![k] =
                                       (cacheKey(call.url, call.keyword) :>
                                           [results |-> res, timestamp |-> now]) @@ cache[k]]
                                /\ calls' = [calls EXCEPT ![c].f = f2, ![c].pc = "returned",
                                                          ![c].ret = res]
                           ELSE \* analyzeURL: new URL(url) throws
                                /\ calls' = [calls EXCEPT ![c].f = f2, ![c].pc = "thrown"]
                                /\ UNCHANGED <<cache, results>>
        /\ UNCHANGED <<now, keyword, fetch, netlog, isRunning, analyzedPages, runs, stats>>

\* time passes
TicksOf(t) == (t \div (cacheExpiry - 1)) + (t % (cacheExpiry - 1))
Tick(d) ==
    /\ TicksOf(now + d) <= MaxTicks
    /\ now' = now + d
    /\ UNCHANGED <<web, cache, keyword, results, calls, fetch, netlog, isRunning,
                   analyzedPages, runs, stats>>

(***************************************************************************)
(* SitewideAnalyzer.discoverInternalPages.  A run record holds the locals   *)
(* of one analyzeSitewide invocation and of the discovery it awaits:        *)
(* foundUrls (a Set, in insertion order), crawledUrls, urlsToCheck.          *)
(***************************************************************************)
IdleRun ==
    [pc |-> "idle", baseUrl |-> Malformed(<<>>), keyword |-> <<>>, maxPages |-> 0,
     includeSubdomains |-> FALSE, foundUrls |-> <<>>, crawledUrls |-> {}, urlsToCheck |-> <<>>,
     currentUrl |-> Malformed(<<>>), f |-> NoFetch, internalUrls |-> <<>>, completed |-> 0,
     ret |-> <<>>]

\* slice(0, maxPages) left out of the return statement
Slice_none(seq, n) == seq

\* Array.prototype.slice(0, n)
Slice(seq, n) == SubSeq(seq, 1, IF n < Len(seq) THEN n ELSE Len(seq))

\* the body of the `for (const link of links)` loop, for the links from position i on
RECURSIVE ScanLinks(_, _, _)
ScanLinks(d, links, i) ==
    IF i > Len(links) THEN d
    ELSE LET href == links[i]
             abs == resolveUrl(href, d.currentUrl)
         IN  IF IsEmptyHref(href) \/ abs = <<>> THEN ScanLinks(d, links, i + 1)
             ELSE IF isInternalUrl(abs[1], d.baseUrl, d.includeSubdomains)
                     /\ cleanUrl(abs[1]) \notin Range(d.foundUrls)
                     /\ Len(d.foundUrls) < d.maxPages
                  THEN ScanLinks([d EXCEPT !.foundUrls = Append(@, cleanUrl(abs[1])),
                                           !.urlsToCheck = Append(@, cleanUrl(abs[1]))],
                                 links, i + 1)
                  ELSE ScanLinks(d, links, i + 1)

\* the while loop taking the newest URL of the queue (pop in place of shift)
RECURSIVE LoopHead_lifo(_)
LoopHead_lifo(d) ==
    IF d.urlsToCheck # <<>> /\ Len(d.foundUrls) < d.maxPages
    THEN LET cur == d.urlsToCheck[Len(d.urlsToCheck)]
             d1 == [d EXCEPT !.urlsToCheck = SubSeq(@, 1, Len(@) - 1)]
         IN  IF cur \in d.crawledUrls THEN LoopHead_lifo(d1)
             ELSE [d1 EXCEPT !.crawledUrls = @ \cup {cur}, !.currentUrl = cur,
                             !.f = NewFetch, !.pc = "crawling"]
    ELSE [d EXCEPT !.pc = "discovered", !.f = NoFetch,
                   !.internalUrls = Slice(d.foundUrls, d.maxPages)]

\* the while loop reading the head of the queue without removing it, and without
\* the visited test
LoopHead_nopop(d) ==
    IF d.urlsToCheck # <<>> /\ Len(d.foundUrls) < d.maxPages
    THEN [d EXCEPT !.crawledUrls = @ \cup {Head(d.urlsToCheck)},
                   !.currentUrl = Head(d.urlsToCheck),
                   !.f = NewFetch, !.pc = "crawling"]
    ELSE [d EXCEPT !.pc = "discovered", !.f = NoFetch,
                   !.internalUrls = Slice(d.foundUrls, d.maxPages)]

\* the while loop without `foundUrls.size < maxPages` in its condition
RECURSIVE LoopHead_nocap(_)
LoopHead_nocap(d) ==
    IF d.urlsToCheck # <<>>
    THEN LET cur == Head(d.urlsToCheck)
             d1 == [d EXCEPT !.urlsToCheck = Tail(@)]
         IN  IF cur \in d.crawledUrls THEN LoopHead_nocap(d1)
             ELSE [d1 EXCEPT !.crawledUrls = @ \cup {cur}, !.currentUrl = cur,
                             !.f = NewFetch, !.pc = "crawling"]
    ELSE [d EXCEPT !.pc = "discovered", !.f = NoFetch,
                   !.internalUrls = Slice(d.foundUrls, d.maxPages)]

\* the head of the while loop, up to the next await or the return
RECURSIVE LoopHead(_)
LoopHead(d) ==
    IF d.urlsToCheck # <<>> /\ Len(d.foundUrls) < d.maxPages
    THEN LET cur == Head(d.urlsToCheck)
             d1 == [d EXCEPT !.urlsToCheck = Tail(@)]
         IN  IF cur \in d.crawledUrls THEN LoopHead(d1)
             ELSE [d1 EXCEPT !.crawledUrls = @ \cup {cur}, !.currentUrl = cur,
                             !.f = NewFetch, !.pc = "crawling"]
    ELSE [d EXCEPT !.pc = "discovered", !.f = NoFetch,
                   !.internalUrls = Slice(d.foundUrls, d.maxPages)]

\* discoverInternalPages with the visited set kept on the instance: it starts
\* from the pages every invocation has crawled so far
discoverInternalPages_shared(d, baseUrl, maxPages, includeSubdomains) ==
    LoopHead([d EXCEPT !.baseUrl = baseUrl, !.maxPages = maxPages,
                       !.includeSubdomains = includeSubdomains,
                       !.foundUrls = <<baseUrl>>,
                       !.crawledUrls = UNION {runs[q].crawledUrls : q \in DOMAIN runs},
                       !.urlsToCheck = <<baseUrl>>])

\* discoverInternalPages(baseUrl, maxPages, includeSubdomains) up to its first await
discoverInternalPages(d, baseUrl, maxPages, includeSubdomains) ==
    LoopHead([d EXCEPT !.baseUrl = baseUrl, !.maxPages = maxPages,
                       !.includeSubdomains = includeSubdomains,
                       !.foundUrls = <<baseUrl>>, !.crawledUrls = {},
                       !.urlsToCheck = <<baseUrl>>])

\* the discovery without its try/catch around the retrieval: a failed retrieval
\* ends the traversal with what was found so far
Crawled_giveUp(r, raw) ==
    LET d == runs[r]
        f2 == fetchWithCORS(d.f, d.currentUrl, raw)
    IN  /\ d.pc = "crawling"
        /\ CASE f2.pc = "pending" ->
                  /\ runs' = [runs EXCEPT ![r].f = f2]
                  /\ web' = web
             [] f2.pc = "thrown" ->
                  /\ runs' = [runs EXCEPT ![r] =
                                [d EXCEPT !.pc = "discovered", !.f = NoFetch,
                                          !.internalUrls = Slice(d.foundUrls, d.maxPages)]]
                  /\ web' = web
             [] OTHER ->
                  \E links \in LinksServed(d.currentUrl) :
                      /\ web' = Reveal(d.currentUrl, links)
                      /\ runs' = [runs EXCEPT ![r] = LoopHead(ScanLinks(d, links, 1))]
        /\ UNCHANGED <<now, cache, keyword, results, calls, fetch, netlog, isRunning,
                       analyzedPages, stats>>

\* the backend awaited by the discovery of run r answers
Crawled(r, raw) ==
    LET d == runs[r]
        f2 == fetchWithCORS(d.f, d.currentUrl, raw)
    IN  /\ d.pc = "crawling"
        /\ CASE f2.pc = "pending" ->
                  /\ runs' = [runs EXCEPT ![r].f = f2]
                  /\ web' = web
             [] f2.pc = "thrown" ->      \* caught and logged: on with the queue
                  /\ runs' = [runs EXCEPT ![r] = LoopHead(d)]
                  /\ web' = web
             [] OTHER ->
                  \E links \in LinksServed(d.currentUrl) :
                      /\ web' = Reveal(d.currentUrl, links)
                      /\ runs' = [runs EXCEPT ![r] = LoopHead(ScanLinks(d, links, 1))]
        /\ UNCHANGED <<now, cache, keyword, results, calls, fetch, netlog, isRunning,
                       analyzedPages, stats>>

(***************************************************************************)
(* SitewideAnalyzer: per-page entries and calculateSitewideStats.           *)
(* A message is the list of its words.  An entry of analyzedPages keeps     *)
(* what the aggregation reads: url, error, score and the issue list.        *)
(***************************************************************************)
Issue(type, message) == [type |-> type, message |-> message]

\* SitewideAnalyzer.extractPageIssues
extractPageIssues(res) ==
    (IF ~res.title.exists THEN <<Issue("error", <<"Title", "tag", "ontbreekt">>)>>
     ELSE IF ~res.title.isOptimal
          THEN <<Issue("warning", <<"Title", "lengte", "niet", "optimaal">>)>>
          ELSE <<>>)
    \o (IF ~res.h1.isOptimal
        THEN IF res.h1.count = 0 THEN <<Issue("error", <<"H1", "tag", "ontbreekt">>)>>
             ELSE <<Issue("warning", <<"Meerdere", "H1", "tags">>)>>
        ELSE <<>>)
    \o (IF ~res.meta.exists
        THEN <<Issue("warning", <<"Meta", "description", "ontbreekt">>)>>
        ELSE <<>>)
    \o (IF res.images.withoutAlt > 0
        THEN <<Issue("warning", <<ToString(res.images.withoutAlt), "afbeeldingen", "zonder",
                                  "alt-text">>)>>
        ELSE <<>>)

\* the object analyzePageSEO returns: the facts are those analyzeWebsite returned,
\* the score is calculateScore() over this.seoChecker.results
analyzePageSEO(url, res, thisResults) ==
    [url |-> url, error |-> FALSE, score |-> calculateScore(thisResults),
     issues |-> extractPageIssues(res)]

\* the entry pushed in the catch block of the page loop
FailedPage(url) == [url |-> url, error |-> TRUE, score |-> 0, issues |-> <<>>]

RECURSIVE SumScores(_)
SumScores(pages) == IF pages = <<>> THEN 0 ELSE Head(pages).score + SumScores(Tail(pages))

\* the fold without the lookup by message: every occurrence is a new row
FoldIssue_fresh(all, issue, url) ==
    Append(all, [type |-> issue.type, message |-> issue.message, count |-> 1, pages |-> <<url>>])

\* the fold that lists the page of a known issue without counting it
FoldIssue_nocount(all, issue, url) ==
    IF \E i \in 1..Len(all) : all[i].message = issue.message
    THEN LET i == CHOOSE j \in 1..Len(all) : all[j].message = issue.message
         IN  [all EXCEPT ![i].pages = Append(@, url)]
    ELSE Append(all, [type |-> issue.type, message |-> issue.message, count |-> 1,
                      pages |-> <<url>>])

\* one step of the fold: issue `issue` of the page at `url` enters the table
FoldIssue(all, issue, url) ==
    IF \E i \in 1..Len(all) : all[i].message = issue.message
    THEN LET i == CHOOSE j \in 1..Len(all) :
                    /\ all[j].message = issue.message
                    /\ \A k \in 1..(j - 1) : all[k].message # issue.message
         IN  [all EXCEPT ![i].count = @ + 1, ![i].pages = Append(@, url)]
    ELSE Append(all, [type |-> issue.type, message |-> issue.message, count |-> 1,
                      pages |-> <<url>>])

RECURSIVE FoldPage(_, _, _, _)
FoldPage(all, issues, i, url) ==
    IF i > Len(issues) THEN all ELSE FoldPage(FoldIssue(all, issues[i], url), issues, i + 1, url)

\* "Verzamel alle issues": the fold over the successful pages, in list order
RECURSIVE FoldPages(_, _, _)
FoldPages(all, pages, i) ==
    IF i > Len(pages) THEN all
    ELSE FoldPages(FoldPage(all, pages[i].issues, 1, pages[i].url), pages, i + 1)

typeWeight(type) == CASE type = "error" -> 3 [] type = "warning" -> 2 [] OTHER -> 1
IssueWeight(issue) == typeWeight(issue.type) * issue.count

\* Array.prototype.sort with the comparator bWeight - aWeight (a stable sort)
RECURSIVE InsertByWeight(_, _)
InsertByWeight(sorted, x) ==
    IF sorted = <<>> THEN <<x>>
    ELSE IF IssueWeight(Head(sorted)) >= IssueWeight(x)
         THEN <<Head(sorted)>> \o InsertByWeight(Tail(sorted), x)
         ELSE <<x>> \o sorted

\* the table left as the fold built it
SortIssues_none(sorted, rest) == sorted \o rest

RECURSIVE SortIssues(_, _)
SortIssues(sorted, rest) ==
    IF rest = <<>> THEN sorted ELSE SortIssues(InsertByWeight(sorted, Head(rest)), Tail(rest))

\* the issue-specific line for one issue, or nothing
IssueAdvice(issue) ==
    IF Includes(issue.message, <<"Title">>) THEN <<[kind |-> "titles", count |-> issue.count]>>
    ELSE IF Includes(issue.message, <<"H1">>) THEN <<[kind |-> "h1", count |-> issue.count]>>
    ELSE IF Includes(issue.message, <<"Meta", "description">>)
         THEN <<[kind |-> "meta", count |-> issue.count]>>
         ELSE <<>>

\* SitewideAnalyzer.generateRecommendations
generateRecommendations(issues, averageScore) ==
    LET triage == IF averageScore < 50 THEN [kind |-> "priority", count |-> 0]
                  ELSE IF averageScore < 70 THEN [kind |-> "improve", count |-> 0]
                  ELSE [kind |-> "good", count |-> 0]
        top == Slice(issues, 3)
    IN  Slice(<<triage>> \o Concat([i \in 1..Len(top) |-> IssueAdvice(top[i])]), 5)

\* calculateSitewideStats counting only the successful pages as totalPages
calculateSitewideStats_okOnly(pages) ==
    LET successfulPages == SelectSeq(pages, LAMBDA p : ~p.error)
        averageScore == Round(SumScores(successfulPages), Len(successfulPages))
        allIssues == SortIssues(<<>>, FoldPages(<<>>, successfulPages, 1))
    IN  IF Len(successfulPages) = 0
        THEN [totalPages |-> 0, successfulPages |-> 0, averageScore |-> 0,
              pages |-> pages, issues |-> <<>>, recommendations |-> <<>>]
        ELSE [totalPages |-> Len(successfulPages), successfulPages |-> Len(successfulPages),
              averageScore |-> averageScore,
              pages |-> pages,
              issues |-> Slice(allIssues, 10),
              recommendations |-> generateRecommendations(allIssues, averageScore)]

\* calculateSitewideStats averaging over all pages, the failed ones included
calculateSitewideStats_allPages(pages) ==
    LET successfulPages == SelectSeq(pages, LAMBDA p : ~p.error)
        averageScore == Round(SumScores(pages), Len(pages))
        allIssues == SortIssues(<<>>, FoldPages(<<>>, successfulPages, 1))
    IN  IF Len(successfulPages) = 0
        THEN [totalPages |-> Len(pages), successfulPages |-> 0, averageScore |-> 0,
              pages |-> pages, issues |-> <<>>, recommendations |-> <<>>]
        ELSE [totalPages |-> Len(pages), successfulPages |-> Len(successfulPages),
              averageScore |-> averageScore,
              pages |-> pages,
              issues |-> Slice(allIssues, 10),
              recommendations |-> generateRecommendations(allIssues, averageScore)]

\* SitewideAnalyzer.calculateSitewideStats over this.analyzedPages
calculateSitewideStats(pages) ==
    LET successfulPages == SelectSeq(pages, LAMBDA p : ~p.error)
        averageScore == Round(SumScores(successfulPages), Len(successfulPages))
        allIssues == SortIssues(<<>>, FoldPages(<<>>, successfulPages, 1))
    IN  IF Len(successfulPages) = 0
        THEN [totalPages |-> Len(pages), successfulPages |-> 0, averageScore |-> 0,
              pages |-> pages, issues |-> <<>>, recommendations |-> <<>>]
        ELSE [totalPages |-> Len(pages), successfulPages |-> Len(successfulPages),
              averageScore |-> averageScore,
              pages |-> pages,
              issues |-> Slice(allIssues, 10),
              recommendations |-> generateRecommendations(allIssues, averageScore)]

(***************************************************************************)
(* SitewideAnalyzer.analyzeSitewide.                                        *)
(***************************************************************************)
\* the busy-flag guard left out
Busy_never(flag) == FALSE

\* `if (this.isRunning) return;`
Busy(flag) == flag

\* startSitewideAnalysis calls analyzeSitewide(baseUrl, keyword, {maxPages,
\* includeSubdomains}): it is rejected (it returns undefined, which
\* startSitewideAnalysis assigns to currentSitewideResults), or runs up to the
\* first await of the discovery
AnalyzeSitewide(r, baseUrl, kw, maxPages, includeSubdomains) ==
    /\ runs[r].pc = "idle"
    /\ IF Busy(isRunning)
       THEN /\ runs' = [runs EXCEPT ![r].pc = "rejected"]
            /\ stats' = <<>>
            /\ UNCHANGED <<isRunning, analyzedPages>>
       ELSE /\ isRunning' = TRUE
            /\ analyzedPages' = <<>>
            /\ runs' = [runs EXCEPT ![r] =
                    discoverInternalPages([IdleRun EXCEPT !.keyword = kw], baseUrl, maxPages,
                                          includeSubdomains)]
            /\ stats' = stats
    /\ UNCHANGED <<now, web, cache, keyword, results, calls, fetch, netlog>>

\* the end of a run with `this.isRunning = false` as the last statement of the
\* try block, not in a finally block
EndRun_noFinally(r, d, pages) ==
    \E shown \in BOOLEAN :
        LET sitewideResults == <<calculateSitewideStats(pages)>>
        IN  /\ runs' = [runs EXCEPT ![r] =
                    IF shown THEN [d EXCEPT !.pc = "done", !.ret = sitewideResults]
                    ELSE [d EXCEPT !.pc = "failed", !.ret = <<>>]]
            /\ stats' = IF shown THEN sitewideResults ELSE <<>>
            /\ isRunning' = IF shown THEN FALSE ELSE isRunning

\* the end of a run: the statistics are computed and displayed and the run
\* returns them, or a display callback throws (shown = FALSE), the outer catch
\* reports it and the run returns undefined; `finally` clears the busy flag, and
\* startSitewideAnalysis assigns what was returned to currentSitewideResults
EndRun(r, d, pages) ==
    \E shown \in BOOLEAN :
        LET sitewideResults == <<calculateSitewideStats(pages)>>
        IN  /\ runs' = [runs EXCEPT ![r] =
                    IF shown THEN [d EXCEPT !.pc = "done", !.ret = sitewideResults]
                    ELSE [d EXCEPT !.pc = "failed", !.ret = <<>>]]
            /\ stats' = IF shown THEN sitewideResults ELSE <<>>
            /\ isRunning' = FALSE

\* the page loop after `pages` have been recorded: the next page's analysis is
\* started, or the run ends (statistics, display, finally)
NextPage(r, d, pages, sweep) ==
    /\ analyzedPages' = pages
    /\ IF d.completed < Len(d.internalUrls)
       THEN /\ AWBegin(r, d.internalUrls[d.completed + 1], d.keyword, sweep)
            /\ runs' = [runs EXCEPT ![r] = [d EXCEPT !.pc = "analyzing"]]
            /\ isRunning' = isRunning
            /\ stats' = stats
       ELSE /\ EndRun(r, d, pages)
            /\ UNCHANGED <<cache, keyword, results, calls>>

\* the discovery awaited by run r has returned
BeginPages(r, sweep) ==
    /\ runs[r].pc = "discovered"
    /\ NextPage(r, runs[r], analyzedPages, sweep)
    /\ UNCHANGED <<now, web, fetch, netlog>>

\* the page loop without its try/catch: a page that throws ends the run in the
\* outer catch
PageDone_abort(r, sweep) ==
    LET d == runs[r]
        url == d.internalUrls[d.completed + 1]
    IN  /\ d.pc = "analyzing"
        /\ calls[r].pc \in {"returned", "thrown"}
        /\ IF calls[r].pc = "returned"
           THEN NextPage(r, [d EXCEPT !.completed = @ + 1],
                         Append(analyzedPages,
                                analyzePageSEO(url, calls[r].ret, results[CheckerOf(r)])), sweep)
           ELSE /\ runs' = [runs EXCEPT ![r].pc = "done"]
                /\ isRunning' = FALSE
                /\ stats' = <<>>
                /\ UNCHANGED <<analyzedPages, cache, keyword, results, calls>>
        /\ UNCHANGED <<now, web, fetch, netlog>>

\* unshift in place of push
PageDone_unshift(r, sweep) ==
    LET d == runs[r]
        url == d.internalUrls[d.completed + 1]
        entry == IF calls[r].pc = "returned"
                 THEN analyzePageSEO(url, calls[r].ret, results[CheckerOf(r)])
                 ELSE FailedPage(url)
    IN  /\ d.pc = "analyzing"
        /\ calls[r].pc \in {"returned", "thrown"}
        /\ NextPage(r, [d EXCEPT !.completed = @ + 1], <<entry>> \o analyzedPages, sweep)
        /\ UNCHANGED <<now, web, fetch, netlog>>

\* the page analysis awaited by run r has returned or thrown
PageDone(r, sweep) ==
    LET d == runs[r]
        url == d.internalUrls[d.completed + 1]
        entry == IF calls[r].pc = "returned"
                 THEN analyzePageSEO(url, calls[r].ret, results[CheckerOf(r)])
                 ELSE FailedPage(url)
    IN  /\ d.pc = "analyzing"
        /\ calls[r].pc \in {"returned", "thrown"}
        /\ NextPage(r, [d EXCEPT !.completed = @ + 1], Append(analyzedPages, entry), sweep)
        /\ UNCHANGED <<now, web, fetch, netlog>>

(***************************************************************************)
(* SpecChecker: single-page analyses on the global checker, while time      *)
(* passes.                                                                  *)
(***************************************************************************)
CheckerUrls == {Seed, Malformed(<<"x">>)}
CheckerKeywords == {<<"K">>}
CheckerDocs == {DocGood, DocPoor}
CheckerWeb == (Target(Seed) :> <<Rel(PathP, <<>>, <<>>), BadHref>>)
                @@ (Target(Malformed(<<"x">>)) :> <<>>)

InitChecker ==
    /\ now = 0
    /\ web = CheckerWeb
    /\ cache = [k \in Checkers |-> EmptyCache]
    /\ keyword = [k \in Checkers |-> <<>>]
    /\ results = [k \in Checkers |-> NoResults]
    /\ calls = [c \in CallIds |-> IdleCall]
    /\ fetch = NoFetchCall
    /\ netlog = <<>>
    /\ isRunning = FALSE
    /\ analyzedPages = <<>>
    /\ runs = [r \in RunIds |-> IdleRun]
    /\ stats = <<>>

NextChecker ==
    \/ \E url \in CheckerUrls, kw \in CheckerKeywords, sweep \in BOOLEAN :
            AnalyzeWebsite("u1", url, kw, sweep)
    \/ \E raw \in Raw : AWFetched("u1", raw, CheckerDocs)
    \/ \E d \in {1, cacheExpiry - 1} : Tick(d)

SpecChecker == InitChecker /\ [][NextChecker]_vars

(***************************************************************************)
(* SpecFetch: fetchWithCORS invocations, one after the other, with the      *)
(* network's log of each.                                                   *)
(***************************************************************************)
InitFetch ==
    /\ now = 0
    /\ web = CheckerWeb
    /\ cache = [k \in Checkers |-> EmptyCache]
    /\ keyword = [k \in Checkers |-> <<>>]
    /\ results = [k \in Checkers |-> NoResults]
    /\ calls = [c \in CallIds |-> IdleCall]
    /\ fetch = NoFetchCall
    /\ netlog = <<>>
    /\ isRunning = FALSE
    /\ analyzedPages = <<>>
    /\ runs = [r \in RunIds |-> IdleRun]
    /\ stats = <<>>

NextFetch ==
    \/ \E url \in FetchUrls : FetchCall(url)
    \/ \E raw \in Raw : FetchAnswer(raw)

SpecFetch == InitFetch /\ [][NextFetch]_vars

(***************************************************************************)
(* Properties of the retrieval layer (SpecFetch).                           *)
(***************************************************************************)
\* the code reads the answer of the i-th backend as a JSON envelope
ReadsEnvelope(i) ==
    /\ i >= 2
    /\ \/ Includes(proxies(fetch.url)[i - 1], <<"/", "api", "/", "proxy">>)
       \/ Includes(proxies(fetch.url)[i - 1], <<"allorigins", ".", "win">>)

\* the i-th answer is a failure: an exception, a non-2xx status, or an envelope
\* that cannot be read or has no contents
AnswerFails(i) ==
    \/ netlog[i].thrown
    \/ ~Ok(netlog[i].status)
    \/ ReadsEnvelope(i) /\ netlog[i].json # "contents"

\* C5: one fetchWithCORS call asks the backends in the order direct, own relay,
\* allorigins, cors-anywhere, thingproxy, each at most once; a failed answer makes
\* it ask the next backend, and the answer it returns on is the last one asked for.
C5_BackendOrder ==
    LET n == Len(netlog)
        f == fetch.f
    IN  /\ Len(f.tried) <= Len(Backends)
        /\ f.tried = SubSeq(Backends, 1, Len(f.tried))
        /\ \A i \in 1..n : netlog[i].backend = Backends[i]
        /\ n = IF f.pc = "pending" THEN Len(f.tried) - 1 ELSE Len(f.tried)
        /\ \A i \in 1..n : AnswerFails(i) <=> ~(i = n /\ f.pc = "returned")
        /\ (n >= 1 /\ n < Len(Backends) /\ AnswerFails(n)) => f.pc = "pending"

\* a call returned on the third backend after the first two failed
C5_Witness ==
    /\ fetch.f.pc = "returned"
    /\ Len(netlog) = 3
    /\ fetch.f.tried = <<"direct", "own", "allorigins">>

\* C6: fetchWithCORS throws exactly when all five backends have answered, each
\* once, and every answer was a failure.
C6_ThrowsIffExhausted ==
    fetch.f.pc = "thrown"
        <=> /\ Len(netlog) = Len(Backends)
            /\ \A i \in 1..Len(netlog) : netlog[i].backend = Backends[i] /\ AnswerFails(i)

C6_Witness ==
    /\ fetch.f.pc = "thrown"
    /\ Len(netlog) = 5
    /\ netlog[5].backend = "thingproxy"

(***************************************************************************)
(* Properties of the result cache (SpecChecker).                            *)
(***************************************************************************)
\* call c is started in this step
Starts(c) == calls[c].pc # "fetching" /\ calls'[c] # calls[c]

\* the entry the checker of c holds, before the step, under the key of the call started
EntryFor(c) == cache[CheckerOf(c)][cacheKey(calls'[c].url, calls'[c].keyword)]
HasEntryFor(c) ==
    cacheKey(calls'[c].url, calls'[c].keyword) \in DOMAIN cache[CheckerOf(c)]

\* C7: an analyzeWebsite call that returns from the cache returns the facts of an
\* entry no older than the TTL; a call whose entry is older than the TTL is a miss
\* and starts a retrieval.
C7_NoStaleHit ==
    [][\A c \in UiCalls : Starts(c) =>
          /\ (calls'[c].pc = "returned" =>
                /\ HasEntryFor(c)
                /\ now - EntryFor(c).timestamp <= cacheExpiry
                /\ calls'[c].ret = EntryFor(c).results)
          /\ ((HasEntryFor(c) /\ now - EntryFor(c).timestamp > cacheExpiry) =>
                /\ calls'[c].pc = "fetching"
                /\ calls'[c].f = NewFetch)]_vars

\* a retrieval is under way for a key whose entry is older than the TTL
C7_Witness ==
    \E c \in UiCalls :
        LET key == cacheKey(calls[c].url, calls[c].keyword)
        IN  /\ calls[c].pc = "fetching"
            /\ key \in DOMAIN cache[CheckerOf(c)]
            /\ now - cache[CheckerOf(c)][key].timestamp > cacheExpiry

\* C8: an analyzeWebsite call for a (url, keyword) whose facts were stored less
\* than the TTL ago returns the stored facts at once and asks no backend, with or
\* without the cache sweep at the start of the call.
C8_FreshHit ==
    [][\A c \in UiCalls :
          (Starts(c) /\ HasEntryFor(c) /\ now - EntryFor(c).timestamp < cacheExpiry) =>
              /\ calls'[c].pc = "returned"
              /\ calls'[c].ret = EntryFor(c).results
              /\ calls'[c].f = NoFetch
              /\ results'[CheckerOf(c)] = EntryFor(c).results]_vars

\* a call has returned from the cache, some time after the entry was stored
C8_Witness ==
    \E c \in UiCalls :
        LET key == cacheKey(calls[c].url, calls[c].keyword)
        IN  /\ calls[c].pc = "returned"
            /\ calls[c].f = NoFetch
            /\ key \in DOMAIN cache[CheckerOf(c)]
            /\ calls[c].ret = cache[CheckerOf(c)][key].results
            /\ now - cache[CheckerOf(c)][key].timestamp = cacheExpiry - 1

(***************************************************************************)
(* SpecCrawl: one discoverInternalPages invocation over a site whose pages  *)
(* are revealed as they are served.                                         *)
(***************************************************************************)
CrawlSeeds == {Seed, Url(HostA, <<>>, <<>>, <<>>), Url(HostA, PathP, <<"gclid">>, <<"f">>),
               Url(HostSub, Root, <<>>, <<>>)}

InitCrawl ==
    /\ now = 0
    /\ web = [u \in {} |-> <<>>]
    /\ cache = [k \in Checkers |-> EmptyCache]
    /\ keyword = [k \in Checkers |-> <<>>]
    /\ results = [k \in Checkers |-> NoResults]
    /\ calls = [c \in CallIds |-> IdleCall]
    /\ fetch = NoFetchCall
    /\ netlog = <<>>
    /\ isRunning = FALSE
    /\ analyzedPages = <<>>
    /\ \E baseUrl \in CrawlSeeds, maxPages \in 0..MaxPagesBound, includeSubdomains \in BOOLEAN :
          runs = [r \in RunIds |->
                    IF r = "r1"
                    THEN discoverInternalPages(IdleRun, baseUrl, maxPages, includeSubdomains)
                    ELSE IdleRun]
    /\ stats = <<>>

NextCrawl == \E raw \in Raw : Crawled("r1", raw)

SpecCrawl == InitCrawl /\ [][NextCrawl]_vars

\* C1: discoverInternalPages returns at most maxPages URLs, whatever the link
\* graph and whichever retrievals fail.
C1_AtMostMaxPages ==
    \A r \in RunIds :
        runs[r].pc = "discovered" => Len(runs[r].internalUrls) <= runs[r].maxPages

\* a crawl over a cyclic site returned exactly maxPages URLs after a failed
\* retrieval: a served page links back to the seed
C1_Witness ==
    LET d == runs["r1"]
    IN  /\ d.pc = "discovered"
        /\ d.maxPages = 4
        /\ Len(d.internalUrls) = 4
        /\ \E u \in DOMAIN web : u # Target(d.baseUrl)
              /\ \E i \in 1..Len(web[u]) : resolveUrl(web[u][i], u) = <<Target(d.baseUrl)>>
        /\ \E u \in d.crawledUrls : Target(u) \notin DOMAIN web

(***************************************************************************)
(* SpecSitewide: analyzeSitewide called twice on the one sitewideAnalyzer,  *)
(* and a single-page analysis on the global checker.                        *)
(***************************************************************************)
SiteDocs == {DocGood, DocPoor}
SiteKeywords == {<<"K">>}
SiteRaw == { [thrown |-> TRUE, status |-> 0, json |-> "none", dstatus |-> 0],
             [thrown |-> FALSE, status |-> 200, json |-> "none", dstatus |-> 0] }
SiteWeb == (Target(Seed) :> <<Rel(PathP, <<>>, <<>>), Rel(PathQ, <<>>, <<"f">>)>>)
           @@ (Target(PageP) :> <<Rel(Root, <<>>, <<>>)>>)
           @@ (Target(Url(HostA, PathQ, <<>>, <<>>)) :> <<BadHref>>)

InitSitewide ==
    /\ now = 0
    /\ web = SiteWeb
    /\ cache = [k \in Checkers |-> EmptyCache]
    /\ keyword = [k \in Checkers |-> <<>>]
    /\ results = [k \in Checkers |-> NoResults]
    /\ calls = [c \in CallIds |-> IdleCall]
    /\ fetch = NoFetchCall
    /\ netlog = <<>>
    /\ isRunning = FALSE
    /\ analyzedPages = <<>>
    /\ runs = [r \in RunIds |-> IdleRun]
    /\ stats = <<>>

\* the calls of analyzeSitewide are numbered in the order they are made
NextRunId == IF runs["r1"].pc = "idle" THEN "r1" ELSE "r2"

NextSitewide ==
    \/ \E kw \in SiteKeywords, maxPages \in 0..MaxSitePages :
            AnalyzeSitewide(NextRunId, Seed, kw, maxPages, FALSE)
    \/ \E r \in RunIds, raw \in SiteRaw : Crawled(r, raw)
    \/ \E r \in RunIds, sweep \in BOOLEAN : BeginPages(r, sweep)
    \/ \E r \in RunIds, raw \in SiteRaw : AWFetched(r, raw, SiteDocs)
    \/ \E r \in RunIds, sweep \in BOOLEAN : PageDone(r, sweep)
    \/ \E kw \in SiteKeywords, sweep \in BOOLEAN : AnalyzeWebsite("u1", Seed, kw, sweep)
    \/ \E raw \in SiteRaw : AWFetched("u1", raw, {DocGood})

SpecSitewide == InitSitewide /\ [][NextSitewide]_vars

(***************************************************************************)
(* SpecStats: calculateSitewideStats over page lists of every order.        *)
(***************************************************************************)
StatUrls == {Seed, PageP, Url(HostA, PathQ, <<>>, <<>>), Url(HostA, PathR, <<>>, <<>>)}

\* what the page loop can record for url
StatEntries(url) ==
    {FailedPage(url)}
    \cup { LET res == Facts(url, <<"K">>, <<"k">>, [status |-> 200], doc, <<>>)
           IN  analyzePageSEO(url, res, res) : doc \in Docs }

StatInputs ==
    UNION { { pages \in [1..n -> UNION {StatEntries(u) : u \in StatUrls}] :
                \A i, j \in 1..n : i # j => pages[i].url # pages[j].url }
            : n \in 0..MaxStatPages }

InitStats ==
    /\ now = 0
    /\ web = [u \in {} |-> <<>>]
    /\ cache = [k \in Checkers |-> EmptyCache]
    /\ keyword = [k \in Checkers |-> <<>>]
    /\ results = [k \in Checkers |-> NoResults]
    /\ calls = [c \in CallIds |-> IdleCall]
    /\ fetch = NoFetchCall
    /\ netlog = <<>>
    /\ isRunning = FALSE
    /\ analyzedPages \in StatInputs
    /\ runs = [r \in RunIds |-> IdleRun]
    /\ stats = <<>>

CalculateSitewideStats ==
    /\ stats = <<>>
    /\ stats' = <<calculateSitewideStats(analyzedPages)>>
    /\ UNCHANGED <<now, web, cache, keyword, results, calls, fetch, netlog, isRunning,
                   analyzedPages, runs>>

NextStats == CalculateSitewideStats

SpecStats == InitStats /\ [][NextStats]_vars

(***************************************************************************)
(* Claims about the sitewide run (SpecSitewide, SpecStats).                 *)
(***************************************************************************)
ActivePcs == {"crawling", "discovered", "analyzing"}

\* the positions of a run that has ended: it returned its statistics, or the
\* outer catch reported a failure and it returned undefined
EndedPcs == {"done", "failed"}

\* run r records the outcome of its current page in this step
RecordsPage(r) ==
    /\ runs[r].pc = "analyzing"
    /\ runs'[r].completed = runs[r].completed + 1

\* C2: when the analysis of a discovered URL fails, the run appends exactly one
\* entry {url, error, score 0} for it and goes on with the next discovered URL;
\* when a run ends, analyzedPages holds one entry per discovered URL, in order.
C2_DegradedEntryAndContinue ==
    [][\A r \in RunIds :
          LET d == runs[r]
              n == Len(d.internalUrls)
          IN  /\ (d.pc = "analyzing" /\ calls[r].pc = "thrown" /\ runs'[r] # d) =>
                    /\ analyzedPages' =
                           Append(analyzedPages,
                                  [url |-> d.internalUrls[d.completed + 1], error |-> TRUE,
                                   score |-> 0, issues |-> <<>>])
                    /\ IF d.completed + 1 < n
                       THEN /\ runs'[r].pc = "analyzing"
                            /\ calls'[r].url = d.internalUrls[d.completed + 2]
                       ELSE runs'[r].pc \in EndedPcs
              /\ (d.pc \in ActivePcs /\ runs'[r].pc \in EndedPcs) =>
                    /\ Len(analyzedPages') = n
                    /\ \A i \in 1..n : analyzedPages'[i].url = d.internalUrls[i]
      ]_vars

\* a run has ended with a failed page followed by an analysed one
C2_Witness ==
    \E r \in RunIds :
        /\ runs[r].pc = "done"
        /\ Len(runs[r].internalUrls) = 2
        /\ Len(analyzedPages) = 2
        /\ analyzedPages[1].error
        /\ ~analyzedPages[2].error

\* C3: a call of analyzeSitewide made while a run is in flight is rejected: it
\* starts no discovery and no retrieval and leaves analyzedPages and isRunning
\* (and everything else) as they are; at most one run is ever active.
C3_OneRunInFlight ==
    [][/\ \A r \in RunIds :
            (/\ runs[r].pc = "idle"
             /\ runs'[r] # runs[r]
             /\ \E q \in RunIds \ {r} : runs[q].pc \in ActivePcs)
            => /\ runs' = [runs EXCEPT ![r].pc = "rejected"]
               /\ UNCHANGED <<analyzedPages, isRunning, calls, cache, results, keyword, web>>
       /\ Cardinality({r \in RunIds : runs'[r].pc \in ActivePcs}) <= 1
      ]_vars

\* a second call was rejected while the first run was analysing its second page
C3_Witness ==
    /\ runs["r1"].pc = "analyzing"
    /\ runs["r1"].completed = 1
    /\ Len(analyzedPages) = 1
    /\ runs["r2"].pc = "rejected"
    /\ runs["r2"].f = NoFetch
    /\ isRunning

\* C4: around every step of a run that is analysing pages, analyzedPages holds
\* the entries of the URLs completed so far, and only those, in discovery order,
\* and the page in the pipeline is the next discovered URL: a page's pipeline
\* starts only after the previous page's entry has been pushed.
C4_PagesInSequence ==
    [][\A r \in RunIds :
          (runs[r].pc = "analyzing" \/ runs'[r].pc = "analyzing") =>
              LET d == runs'[r]
              IN  /\ Len(analyzedPages') = d.completed
                  /\ \A i \in 1..d.completed : analyzedPages'[i].url = d.internalUrls[i]
                  /\ d.pc = "analyzing" =>
                        /\ d.completed < Len(d.internalUrls)
                        /\ calls'[r].url = d.internalUrls[d.completed + 1]
      ]_vars

\* the second page is being retrieved after the first was analysed
C4_Witness ==
    \E r \in RunIds :
        /\ runs[r].pc = "analyzing"
        /\ runs[r].completed = 1
        /\ calls[r].pc = "fetching"
        /\ Len(calls[r].f.tried) >= 2
        /\ ~analyzedPages[1].error
        /\ analyzedPages[1].url # calls[r].url

\* C9 (as the specification states it): when a sitewide run starts the analysis
\* of (url, keyword) while the single-page checker holds an entry for that pair
\* younger than the TTL, the page analysis performs no retrieval.
C9_SitewideReusesSinglePageEntry ==
    [][\A r \in RunIds :
          (/\ runs'[r].pc = "analyzing"
           /\ (runs[r].pc # "analyzing" \/ RecordsPage(r))
           /\ cacheHit(cache["ui"], cacheKey(calls'[r].url, calls'[r].keyword), now))
          => calls'[r].f = NoFetch
      ]_vars

\* C10: every sitewide issue has a count equal to the number of successful
\* pages that report its message, and lists exactly the URLs of those pages,
\* whatever the order of the pages.
C10_CountIsReportingPages ==
    stats # <<>> =>
        \A i \in 1..Len(stats[1].issues) :
            LET e == stats[1].issues[i]
                reporters == {j \in 1..Len(analyzedPages) :
                                /\ ~analyzedPages[j].error
                                /\ \E k \in 1..Len(analyzedPages[j].issues) :
                                        analyzedPages[j].issues[k].message = e.message}
            IN  /\ e.count = Cardinality(reporters)
                /\ Len(e.pages) = e.count
                /\ Range(e.pages) = {analyzedPages[j].url : j \in reporters}
                /\ \A k \in 1..(i - 1) : stats[1].issues[k].message # e.message

\* three pages without a meta description, among them a failed page's successor
C10_Witness ==
    /\ stats # <<>>
    /\ Len(analyzedPages) = 3
    /\ \E i \in 1..Len(stats[1].issues) :
          /\ stats[1].issues[i].message = <<"Meta", "description", "ontbreekt">>
          /\ stats[1].issues[i].count = 3
          /\ Len(stats[1].issues[i].pages) = 3

(***************************************************************************)
(* Claims about the SitewideResult.                                         *)
(***************************************************************************)
\* the positions of the entries without an error
Successful(pages) == {i \in 1..Len(pages) : ~pages[i].error}

\* C11: the result of a finished run has totalPages equal to the number of URLs
\* the run discovered and successfulPages equal to the number of its entries
\* that carry no error, hence successfulPages <= totalPages.
C11_PageCounts ==
    \A r \in RunIds :
        (runs[r].pc = "done" /\ runs[r].ret # <<>>) =>
            LET res == runs[r].ret[1]
            IN  /\ res.totalPages = Len(runs[r].internalUrls)
                /\ res.successfulPages = Cardinality(Successful(res.pages))
                /\ res.successfulPages <= res.totalPages

\* a run over two discovered URLs ended with one failed and one analysed page
C11_Witness ==
    \E r \in RunIds :
        /\ runs[r].pc = "done"
        /\ Len(runs[r].internalUrls) = 2
        /\ runs[r].ret[1].totalPages = 2
        /\ runs[r].ret[1].successfulPages = 1

RECURSIVE SumOver(_, _)
SumOver(pages, idx) ==
    IF idx = {} THEN 0
    ELSE LET i == CHOOSE j \in idx : TRUE IN pages[i].score + SumOver(pages, idx \ {i})

\* C12: averageScore is the mean of the scores of the successful pages rounded
\* to the nearest integer (halves up), 0 when no page succeeded, and within
\* 0..100.
C12_AverageOfSuccessful ==
    stats # <<>> =>
        LET avg == stats[1].averageScore
            ok == Successful(analyzedPages)
            n == Cardinality(ok)
            sum == SumOver(analyzedPages, ok)
        IN  /\ avg \in 0..100
            /\ n = 0 => avg = 0
            /\ n > 0 => (2 * n * avg <= 2 * sum + n /\ 2 * sum + n < 2 * n * avg + 2 * n)

\* a failed page stands between two analysed pages of different scores
C12_Witness ==
    /\ stats # <<>>
    /\ Len(analyzedPages) = 3
    /\ analyzedPages[2].error
    /\ ~analyzedPages[1].error /\ ~analyzedPages[3].error
    /\ analyzedPages[1].score # analyzedPages[3].score
    /\ stats[1].averageScore > 0

(***************************************************************************)
(* SpecRank: calculateSitewideStats over page lists with more than ten      *)
(* distinct issue messages.  The page at position i is served a document    *)
(* with i images lacking an alt text, or a bare document, or fails.         *)
(***************************************************************************)
RankUrl(i) == Url(HostA, <<"/", "p", ToString(i)>>, <<>>, <<>>)

DocAlt(n) == [DocPoor EXCEPT !.imgTotal = n + 1, !.imgWithAlt = 1]

RankEntries(i) ==
    {FailedPage(RankUrl(i))}
    \cup { LET res == Facts(RankUrl(i), <<"K">>, <<"k">>, [status |-> 200], doc, <<>>)
           IN  analyzePageSEO(RankUrl(i), res, res) : doc \in {DocAlt(i), DocBare} }

\* the page lists of length n
RECURSIVE RankLists(_)
RankLists(n) ==
    IF n = 0 THEN {<<>>}
    ELSE {Append(pages, e) : pages \in RankLists(n - 1), e \in RankEntries(n)}

RankInputs == UNION {RankLists(n) : n \in 0..MaxRankPages}

InitRank ==
    /\ now = 0
    /\ web = [u \in {} |-> <<>>]
    /\ cache = [k \in Checkers |-> EmptyCache]
    /\ keyword = [k \in Checkers |-> <<>>]
    /\ results = [k \in Checkers |-> NoResults]
    /\ calls = [c \in CallIds |-> IdleCall]
    /\ fetch = NoFetchCall
    /\ netlog = <<>>
    /\ isRunning = FALSE
    /\ analyzedPages \in RankInputs
    /\ runs = [r \in RunIds |-> IdleRun]
    /\ stats = <<>>

NextRank == CalculateSitewideStats

SpecRank == InitRank /\ [][NextRank]_vars

\* the issues the successful pages report, and the weight of each
Reported(pages) ==
    UNION { Range(pages[j].issues) : j \in Successful(pages) }

severityWeight(type) == IF type = "error" THEN 3 ELSE IF type = "warning" THEN 2 ELSE 1

ReportedWeight(pages, x) ==
    severityWeight(x.type)
    * Cardinality({j \in Successful(pages) : \E k \in 1..Len(pages[j].issues) :
                        pages[j].issues[k].message = x.message})

\* C13: the issues of a result are in non-increasing order of
\* severityWeight(type) x count, there are at most 10 of them, and no reported
\* issue that was left out weighs more than an issue that was kept.
C13_RankedTopTen ==
    stats # <<>> =>
        LET iss == stats[1].issues
            W(e) == severityWeight(e.type) * e.count
        IN  /\ Len(iss) <= 10
            /\ \A i, j \in 1..Len(iss) : i < j => W(iss[i]) >= W(iss[j])
            /\ \A x \in Reported(analyzedPages) :
                  (\A i \in 1..Len(iss) : iss[i].message # x.message) =>
                      \A i \in 1..Len(iss) : ReportedWeight(analyzedPages, x) <= W(iss[i])

\* eleven distinct messages were reported, ten are kept, of different weights
C13_Witness ==
    /\ stats # <<>>
    /\ Cardinality({x.message : x \in Reported(analyzedPages)}) > 10
    /\ Len(stats[1].issues) = 10
    /\ stats[1].issues[1].count > stats[1].issues[10].count

\* the triage line for an average score
Triage(avg) == IF avg < 50 THEN "priority" ELSE IF avg < 70 THEN "improve" ELSE "good"

\* C14 (as the specification states it): the recommendations of every result,
\* the one produced when no page succeeded included, start with the triage
\* line of the averageScore bracket, followed by at most 3 issue-specific
\* lines, at most 5 lines in all.
C14_TriageLineFirst ==
    stats # <<>> =>
        LET rec == stats[1].recommendations
        IN  /\ Len(rec) >= 1
            /\ Len(rec) <= 5
            /\ Len(rec) - 1 <= 3
            /\ rec[1].kind = Triage(stats[1].averageScore)
            /\ \A i \in 2..Len(rec) : rec[i].kind \in {"titles", "h1", "meta"}

\* C15 (as the specification states it): when a run records a successfully
\* analysed page whose facts have canonical.exists = false, the issue list of
\* the recorded entry names the missing canonical.
C15_CanonicalIssue ==
    [][\A r \in RunIds :
          (/\ RecordsPage(r)
           /\ calls[r].pc = "returned"
           /\ ~calls[r].ret.canonical.exists)
          => LET entry == analyzedPages'[Len(analyzedPages')]
             IN  \E k \in 1..Len(entry.issues) :
                    \/ "Canonical" \in Range(entry.issues[k].message)
                    \/ "canonical" \in Range(entry.issues[k].message)
      ]_vars

\* C16 (as the specification states it): a discovery with maxPages 0 or 1
\* returns the one-element list [baseUrl].
C16_SeedOnly ==
    \A r \in RunIds :
        (runs[r].pc = "discovered" /\ runs[r].maxPages \in {0, 1}) =>
            runs[r].internalUrls = <<runs[r].baseUrl>>

(***************************************************************************)
(* Claims about the discovery (SpecCrawl).                                  *)
(***************************************************************************)
\* x and y differ at most in their fragment and in tracking parameters
SamePage(x, y) ==
    LET Kept(q) == SelectSeq(q, LAMBDA p : p \notin {"utm_source", "utm_medium", "utm_campaign",
                                                     "fbclid", "gclid"})
    IN  /\ x.host = y.host
        /\ Normal(x).path = Normal(y).path
        /\ Kept(x.query) = Kept(y.query)

\* no two entries of list that came from hrefs are the same page
OnePerPage(list, baseUrl) ==
    \A i, j \in 1..Len(list) :
        (i # j /\ list[i] # baseUrl /\ list[j] # baseUrl) => ~SamePage(list[i], list[j])

\* C17: hrefs that differ only in their fragment or in the tracking parameters
\* are one page: of the URLs that entered the discovered set, the queue or the
\* returned list from hrefs, no two are the same page.
C17_OneUrlPerPage ==
    \A r \in RunIds :
        /\ OnePerPage(runs[r].foundUrls, runs[r].baseUrl)
        /\ OnePerPage(runs[r].urlsToCheck, runs[r].baseUrl)
        /\ OnePerPage(runs[r].internalUrls, runs[r].baseUrl)

\* a served page had the hrefs /p#f and /p?utm_source, and /p was returned once
C17_Witness ==
    LET d == runs["r1"]
    IN  /\ d.pc = "discovered"
        /\ \E u \in DOMAIN web :
              /\ u \in d.crawledUrls
              /\ \E i, j \in 1..Len(web[u]) :
                    /\ web[u][i] = Rel(PathP, <<>>, <<"f">>)
                    /\ web[u][j] = Rel(PathP, <<"utm_source">>, <<>>)
        /\ Cardinality({i \in 1..Len(d.internalUrls) : d.internalUrls[i] = PageP}) = 1
        /\ Len(d.internalUrls) >= 3

\* the position of x in list
IndexOf(list, x) == CHOOSE i \in 1..Len(list) : list[i] = x

\* C18: the returned list is in breadth-first discovery order.  Every step of
\* a discovery keeps the seed first and only appends to the discovered list,
\* the pages are dequeued in the order they were discovered, and the returned
\* list is an initial part of the discovered list.
C18_DiscoveryOrder ==
    [][\A r \in RunIds :
          LET d == runs[r]
              e == runs'[r]
          IN  d.pc = "crawling" =>
                /\ e.foundUrls[1] = e.baseUrl
                /\ Len(d.foundUrls) <= Len(e.foundUrls)
                /\ SubSeq(e.foundUrls, 1, Len(d.foundUrls)) = d.foundUrls
                /\ (e.pc = "crawling" /\ e.currentUrl # d.currentUrl) =>
                      IndexOf(e.foundUrls, d.currentUrl) < IndexOf(e.foundUrls, e.currentUrl)
                /\ e.pc = "discovered" =>
                      /\ Len(e.internalUrls) <= Len(e.foundUrls)
                      /\ e.internalUrls = SubSeq(e.foundUrls, 1, Len(e.internalUrls))
      ]_vars

\* three pages were dequeued and the fourth URL was found on the third of them
C18_Witness ==
    LET d == runs["r1"]
    IN  /\ d.pc = "discovered"
        /\ Len(d.internalUrls) = 4
        /\ d.internalUrls[1] = d.baseUrl
        /\ Cardinality(d.crawledUrls) = 3
        /\ \A u \in d.crawledUrls : Target(u) \in DOMAIN web
        /\ \E u \in d.crawledUrls :
              /\ u = d.internalUrls[3]
              /\ \E i \in 1..Len(web[Target(u)]) :
                    resolveUrl(web[Target(u)][i], u) # <<>>
                    /\ cleanUrl(resolveUrl(web[Target(u)][i], u)[1]) = d.internalUrls[4]
        /\ \A k \in 1..2 : \A i \in 1..Len(web[Target(d.internalUrls[k])]) :
              LET a == resolveUrl(web[Target(d.internalUrls[k])][i], d.internalUrls[k])
              IN  a = <<>> \/ cleanUrl(a[1]) # d.internalUrls[4]

(***************************************************************************)
(* SpecTwice: discoverInternalPages invoked twice with the same arguments   *)
(* on a site that does not change: a page of the site is served by the      *)
(* direct request every time, any other URL fails on every backend every    *)
(* time.  The second invocation starts at any moment.                       *)
(***************************************************************************)
TwiceSite ==
    (Target(Seed) :> <<Rel(PathP, <<>>, <<>>), Rel(PathQ, <<>>, <<"f">>)>>)
    @@ (Target(PageP) :> <<Rel(Root, <<>>, <<>>), Rel(PathR, <<>>, <<>>)>>)
    @@ (Target(Url(HostA, PathQ, <<>>, <<>>)) :> <<BadHref, Rel(PathP, <<"utm_source">>, <<>>)>>)
    @@ (Target(Url(HostA, PathR, <<>>, <<>>)) :> <<Rel(PathR, <<>>, <<>>)>>)

\* the sites: any part of TwiceSite may be unreachable
TwiceWebs == {[u \in up |-> TwiceSite[u]] : up \in SUBSET DOMAIN TwiceSite}

\* the answer of every backend asked for url
Served(url) ==
    IF Target(url) \in DOMAIN web
    THEN [thrown |-> FALSE, status |-> 200, json |-> "none", dstatus |-> 0]
    ELSE [thrown |-> TRUE, status |-> 0, json |-> "none", dstatus |-> 0]

InitTwice ==
    /\ now = 0
    /\ web \in TwiceWebs
    /\ cache = [k \in Checkers |-> EmptyCache]
    /\ keyword = [k \in Checkers |-> <<>>]
    /\ results = [k \in Checkers |-> NoResults]
    /\ calls = [c \in CallIds |-> IdleCall]
    /\ fetch = NoFetchCall
    /\ netlog = <<>>
    /\ isRunning = FALSE
    /\ analyzedPages = <<>>
    /\ runs = [r \in RunIds |-> IdleRun]
    /\ stats = <<>>

\* an invocation: the first with any arguments, the second with those of the first
Discover(r, maxPages, includeSubdomains) ==
    /\ runs[r].pc = "idle"
    /\ r = "r2" => /\ runs["r1"].pc # "idle"
                   /\ maxPages = runs["r1"].maxPages
                   /\ includeSubdomains = runs["r1"].includeSubdomains
    /\ runs' = [runs EXCEPT ![r] =
                    discoverInternalPages(runs[r], Seed, maxPages, includeSubdomains)]
    /\ UNCHANGED <<now, web, cache, keyword, results, calls, fetch, netlog, isRunning,
                   analyzedPages, stats>>

NextTwice ==
    \/ \E r \in RunIds, maxPages \in 0..MaxPagesBound, includeSubdomains \in BOOLEAN :
            Discover(r, maxPages, includeSubdomains)
    \/ \E r \in RunIds : runs[r].pc = "crawling" /\ Crawled(r, Served(runs[r].currentUrl))

SpecTwice == InitTwice /\ [][NextTwice]_vars

\* C19: two invocations with the same arguments on the same site with the same
\* retrieval outcomes return the same URLs, whether the second starts after or
\* during the first.
C19_SameResult ==
    (runs["r1"].pc = "discovered" /\ runs["r2"].pc = "discovered") =>
        Range(runs["r1"].internalUrls) = Range(runs["r2"].internalUrls)

\* both invocations returned three URLs although a crawled page was unreachable
C19_Witness ==
    /\ runs["r1"].pc = "discovered"
    /\ runs["r2"].pc = "discovered"
    /\ runs["r1"].maxPages = 4
    /\ Len(runs["r1"].internalUrls) = 3
    /\ Len(runs["r2"].internalUrls) = 3
    /\ \E u \in runs["r2"].crawledUrls : Target(u) \notin DOMAIN web

(***************************************************************************)
(* SpecCrawlLive: the discovery of SpecCrawl when every retrieval attempt   *)
(* completes: an awaited backend eventually answers or fails.               *)
(***************************************************************************)
SpecCrawlLive == InitCrawl /\ [][NextCrawl]_vars /\ WF_vars(NextCrawl)

\* C20: when every retrieval attempt completes, discoverInternalPages returns,
\* on every link graph, with cycles and self-links.
C20_Terminates == <>(runs["r1"].pc = "discovered")

\* the discovery returned after crawling a page that links to itself and a
\* page that links back to the seed
C20_Witness ==
    LET d == runs["r1"]
        LinksTo(u, v) ==
            /\ Target(u) \in DOMAIN web
            /\ \E i \in 1..Len(web[Target(u)]) :
                  LET a == resolveUrl(web[Target(u)][i], u)
                  IN  a # <<>> /\ cleanUrl(a[1]) = v
    IN  /\ d.pc = "discovered"
        /\ \E u \in d.crawledUrls : LinksTo(u, u)
        /\ \E u \in d.crawledUrls : u # d.baseUrl /\ LinksTo(u, Target(d.baseUrl))

\* C21: a failed retrieval never ends a discovery.  Every URL taken from the
\* queue, served or not, is in the discovered list; the discovery returns only
\* when the queue is empty or the discovered list has reached maxPages; and
\* what it returns then is the whole discovered list, the URLs whose retrieval
\* failed included.
C21_FailureSwallowed ==
    \A r \in RunIds :
        LET d == runs[r]
        IN  /\ d.pc \in {"crawling", "discovered"} => d.crawledUrls \subseteq Range(d.foundUrls)
            /\ d.pc = "discovered" =>
                  /\ \/ Len(d.foundUrls) >= d.maxPages
                     \/ \A i \in 1..Len(d.urlsToCheck) : d.urlsToCheck[i] \in d.crawledUrls
                  /\ d.maxPages >= 1 => d.internalUrls = d.foundUrls

\* the second URL could not be retrieved; the third was retrieved after it and
\* the fourth was found on it
C21_Witness ==
    LET d == runs["r1"]
    IN  /\ d.pc = "discovered"
        /\ Len(d.internalUrls) = 4
        /\ d.internalUrls[2] \in d.crawledUrls
        /\ Target(d.internalUrls[2]) \notin DOMAIN web
        /\ d.internalUrls[3] \in d.crawledUrls
        /\ Target(d.internalUrls[3]) \in DOMAIN web

\* C30: a retrieval that a discovery starts is for a URL of the discovered
\* list that was not retrieved before, and it starts only while the discovered
\* list is shorter than maxPages.
C30_RetrievedOnceUnderCap ==
    [][\A r \in RunIds :
          LET d == runs[r]
              e == runs'[r]
          IN  /\ e.pc = "crawling" =>
                    /\ e.currentUrl \in Range(e.foundUrls)
                    /\ e.currentUrl \in e.crawledUrls
                    /\ Len(e.foundUrls) < e.maxPages
              /\ (e.pc = "crawling" /\ e.f = NewFetch /\ e # d) =>
                    /\ e.currentUrl \notin d.crawledUrls
                    /\ e.crawledUrls = d.crawledUrls \cup {e.currentUrl}
      ]_vars

\* the discovery returned at the cap with a discovered URL left in the queue
\* that was never retrieved
C30_Witness ==
    LET d == runs["r1"]
    IN  /\ d.pc = "discovered"
        /\ d.maxPages >= 3
        /\ Len(d.foundUrls) = d.maxPages
        /\ Cardinality(d.crawledUrls) >= 2
        /\ \E i \in 1..Len(d.urlsToCheck) : d.urlsToCheck[i] \notin d.crawledUrls

\* C22: every URL that a discovery returns, other than the seed, has the
\* seed's hostname, or -- with includeSubdomains -- a hostname that ends with
\* the seed's hostname.
C22_ReturnedInternal ==
    \A r \in RunIds :
        LET d == runs[r]
        IN  d.pc = "discovered" =>
                \A i \in 1..Len(d.internalUrls) :
                    LET u == d.internalUrls[i]
                    IN  (u # d.baseUrl /\ u # cleanUrl(d.baseUrl)) =>
                            IF d.includeSubdomains
                            THEN EndsWith(u.host, d.baseUrl.host)
                            ELSE u.host = d.baseUrl.host

(***************************************************************************)
(* SpecScore: calculateScore over the facts of one analysed page, for       *)
(* pages and URLs that make each criterion pass and fail.                   *)
(***************************************************************************)
ScoreTitles == {<<FALSE, 0>>, <<TRUE, 10>>, <<TRUE, 45>>}        \* <<hasTitle, titleLen>>
ScoreMetas == {<<FALSE, 0>>, <<TRUE, 100>>, <<TRUE, 140>>}       \* <<hasMeta, metaLen>>
ScoreImages == {<<0, 0>>, <<4, 3>>, <<5, 4>>}                    \* <<imgTotal, imgWithAlt>>
ScoreDocs ==
    { [DocGood EXCEPT !.hasTitle = t[1], !.titleLen = t[2],
                      !.h1 = [i \in 1..h |-> <<"K", "o", "p">>],
                      !.hasMeta = m[1], !.metaLen = m[2],
                      !.imgTotal = g[1], !.imgWithAlt = g[2], !.hasCanonical = c] :
        t \in ScoreTitles, h \in 0..2, m \in ScoreMetas, g \in ScoreImages, c \in BOOLEAN }

LongPath == <<"/">> \o [i \in 1..100 |-> "x"]
ScoreUrls == {Seed, Url(HostA, <<"/", "_">>, <<>>, <<>>), Url(HostA, LongPath, <<>>, <<>>),
              Url(HostA, LongPath \o <<"_">>, <<>>, <<>>)}
ScoreLinks == {<<Rel(PathP, <<>>, <<>>)>>, <<Rel(PathP, <<>>, <<>>), BadHref>>}

ScoreInputs ==
    {NoResults} \cup
    { Facts(url, <<>>, <<>>, [status |-> st], doc, links) :
        url \in ScoreUrls, st \in Statuses, doc \in ScoreDocs, links \in ScoreLinks }

InitScore ==
    /\ now = 0
    /\ web = [u \in {} |-> <<>>]
    /\ cache = [k \in Checkers |-> EmptyCache]
    /\ keyword = [k \in Checkers |-> <<>>]
    /\ results \in [Checkers -> ScoreInputs]
    /\ results["sw"] = NoResults
    /\ calls = [c \in CallIds |-> IdleCall]
    /\ fetch = NoFetchCall
    /\ netlog = <<>>
    /\ isRunning = FALSE
    /\ analyzedPages = <<>>
    /\ runs = [r \in RunIds |-> IdleRun]
    /\ stats = <<>>

CalculateScore ==
    /\ stats = <<>>
    /\ stats' = <<calculateScore(results["ui"])>>
    /\ UNCHANGED <<now, web, cache, keyword, results, calls, fetch, netlog, isRunning,
                   analyzedPages, runs>>

NextScore == CalculateScore

SpecScore == InitScore /\ [][NextScore]_vars

\* the eight criteria of the score, as they read in the facts
Criteria(res) ==
    IF ~res.defined THEN [i \in 1..8 |-> FALSE]
    ELSE << res.status.isSuccess,
            res.title.exists /\ res.title.isOptimal,
            res.h1.isOptimal,
            res.meta.exists /\ res.meta.isOptimal,
            res.images.percentage >= 80,
            res.canonical.exists,
            res.links.broken = 0,
            res.urlStructure.isShort /\ res.urlStructure.isReadable >>

Weights == <<15, 15, 10, 15, 10, 10, 10, 15>>

RECURSIVE WeightOf(_, _)
WeightOf(passed, i) ==
    IF i = 0 THEN 0 ELSE (IF passed[i] THEN Weights[i] ELSE 0) + WeightOf(passed, i - 1)

\* C23: the score is the sum of the weights of the criteria that pass; the
\* weights total 100, the score is an integer of 0..100, 100 when all eight
\* pass and 0 when none does.
C23_ScoreIsWeightSum ==
    stats # <<>> =>
        LET passed == Criteria(results["ui"])
        IN  /\ stats[1] = WeightOf(passed, 8)
            /\ WeightOf([i \in 1..8 |-> TRUE], 8) = 100
            /\ stats[1] \in 0..100
            /\ (\A i \in 1..8 : passed[i]) => stats[1] = 100
            /\ (\A i \in 1..8 : ~passed[i]) => stats[1] = 0

\* a page scored on which only the links and the canonical criteria fail
C23_Witness ==
    /\ stats = <<80>>
    /\ Criteria(results["ui"]) = <<TRUE, TRUE, TRUE, TRUE, TRUE, FALSE, FALSE, TRUE>>

\* C25: an analysis of a malformed URL asks no backend: neither the direct
\* target nor a relay is requested for it, and it does not wait for one.
C25_MalformedFailsFast ==
    \A c \in UiCalls :
        (calls[c].pc # "idle" /\ ~IsUrl(calls[c].url)) =>
            /\ calls[c].pc # "fetching"
            /\ calls[c].f.tried = <<>>

(***************************************************************************)
(* SpecHeading: cleanHeadingText over headings made of the navigation       *)
(* words, ordinary words, blanks and hyphens.                               *)
(***************************************************************************)
WordLinks == <<"L", "i", "n", "k", "s">>
WordRechtsaf == <<"R", "e", "c", "h", "t", "s", "a", "f">>
WordOver == <<"O", "v", "e", "r">>
Pieces == {WordLinks, ToLowerCase(WordLinks), WordRechtsaf, ToLowerCase(WordRechtsaf),
           WordOver, <<"a", "f">>, <<" ">>, <<"-">>}

RECURSIVE HeadingsOf(_)
HeadingsOf(n) ==
    IF n = 0 THEN {<<>>}
    ELSE HeadingsOf(n - 1) \cup {h \o p : h \in HeadingsOf(n - 1), p \in Pieces}

Headings == HeadingsOf(MaxHeadingPieces)

InitHeading ==
    /\ now = 0
    /\ web = [u \in {} |-> <<>>]
    /\ cache = [k \in Checkers |-> EmptyCache]
    /\ keyword = [k \in Checkers |-> <<>>]
    /\ results = [k \in Checkers |-> NoResults]
    /\ calls = [c \in CallIds |-> IdleCall]
    /\ fetch = NoFetchCall
    /\ netlog = <<>>
    /\ isRunning = FALSE
    /\ analyzedPages = <<>>
    /\ runs = [r \in RunIds |-> IdleRun]
    /\ stats = <<>>

CleanHeadingText(text) ==
    /\ stats = <<>>
    /\ stats' = <<[text |-> text, cleaned |-> cleanHeadingText(text)]>>
    /\ UNCHANGED <<now, web, cache, keyword, results, calls, fetch, netlog, isRunning,
                   analyzedPages, runs>>

\* the cleaned text is cleaned once more
CleanAgain ==
    /\ Len(stats) = 1
    /\ stats' = Append(stats, [text |-> stats[1].cleaned,
                               cleaned |-> cleanHeadingText(stats[1].cleaned)])
    /\ UNCHANGED <<now, web, cache, keyword, results, calls, fetch, netlog, isRunning,
                   analyzedPages, runs>>

NextHeading ==
    \/ stats = <<>> /\ \E text \in Headings : CleanHeadingText(text)
    \/ CleanAgain

SpecHeading == InitHeading /\ [][NextHeading]_vars

\* t begins with the whole word "Links", in any case
LeadsWithLinks(t) ==
    /\ Len(t) >= 5
    /\ \A i \in 1..5 : LowerChar(t[i]) = LowerChar(WordLinks[i])
    /\ Len(t) > 5 => ~IsWordChar(t[6])

\* t ends with the whole word "Rechtsaf", in any case
EndsWithRechtsaf(t) ==
    /\ Len(t) >= 8
    /\ \A i \in 1..8 : LowerChar(t[Len(t) - 8 + i]) = LowerChar(WordRechtsaf[i])
    /\ Len(t) > 8 => ~IsWordChar(t[Len(t) - 8])

\* t without its leading word "Links" and its trailing word "Rechtsaf", and
\* without the blanks around what is left
Stripped(t) ==
    LET a == IF LeadsWithLinks(t) THEN SubSeq(t, 6, Len(t)) ELSE t
        b == IF EndsWithRechtsaf(a) THEN SubSeq(a, 1, Len(a) - 8) ELSE a
    IN  Trim(b)

\* C28: cleanHeadingText returns the trimmed heading without a leading whole
\* word "Links" and a trailing whole word "Rechtsaf" (in any case) -- unless
\* nothing would be left, and then it returns the trimmed heading as it is;
\* a heading that has these words only mid-string or inside a longer word is
\* returned as it is (trimmed).
C28_CleanHeading ==
    stats # <<>> =>
        LET t == Trim(stats[1].text)
            out == stats[1].cleaned
        IN  /\ (~LeadsWithLinks(t) /\ ~EndsWithRechtsaf(t)) => out = t
            /\ Stripped(t) # <<>> => out = Stripped(t)
            /\ Stripped(t) = <<>> => out = t

\* the statement without the exception: the words are removed from every heading
C28_AlwaysRemoved ==
    stats # <<>> =>
        LET t == Trim(stats[1].text)
            out == stats[1].cleaned
        IN  /\ (~LeadsWithLinks(t) /\ ~EndsWithRechtsaf(t)) => out = t
            /\ out = Stripped(t)

\* "Links Over" gave "Over"
C28_Witness ==
    /\ stats # <<>>
    /\ stats[1].text = WordLinks \o <<" ">> \o WordOver
    /\ stats[1].cleaned = WordOver

\* C27: the facts of an analysis with a keyword, of a page on which a cleaned
\* H1 text contains the keyword (in any case), have h1.keywordPresent = true.
C27_KeywordInH1 ==
    \A c \in UiCalls :
        LET call == calls[c]
        IN  (/\ call.pc = "returned"
             /\ call.keyword # <<>>
             /\ \E i \in 1..Len(call.ret.h1.texts) :
                    Includes(ToLowerCase(call.ret.h1.texts[i]), ToLowerCase(call.keyword)))
            => call.ret.h1.keywordPresent

(***************************************************************************)
(* SpecLinks: analyzeLinks over pages whose anchors are some skipped hrefs  *)
(* (empty, fragment, mailto:, tel:) followed by hrefs that are not skipped. *)
(***************************************************************************)
SkippedHrefs == {Rel(<<>>, <<>>, <<>>), Rel(<<>>, <<>>, <<"f">>),
                 Abs(Url(<<>>, <<"mailto:", "x">>, <<>>, <<>>)),
                 Abs(Url(<<>>, <<"tel:", "1">>, <<>>, <<>>))}
InspectedHrefs == {Rel(PathP, <<>>, <<>>), Abs(Url(HostExt, Root, <<>>, <<>>)), BadHref}

AnchorLists ==
    { [i \in 1..k |-> s] \o [i \in 1..j |-> q] :
        k \in 0..MaxSkipped, s \in SkippedHrefs, j \in 0..MaxLinks, q \in InspectedHrefs }

InitLinks ==
    /\ now = 0
    /\ web = [u \in {} |-> <<>>]
    /\ cache = [k \in Checkers |-> EmptyCache]
    /\ keyword = [k \in Checkers |-> <<>>]
    /\ results = [k \in Checkers |-> NoResults]
    /\ calls = [c \in CallIds |-> IdleCall]
    /\ fetch = NoFetchCall
    /\ netlog = <<>>
    /\ isRunning = FALSE
    /\ analyzedPages = <<>>
    /\ runs = [r \in RunIds |-> IdleRun]
    /\ stats = <<>>

AnalyzeLinks(links) ==
    /\ stats = <<>>
    /\ stats' = <<[links |-> links, linkData |-> analyzeLinks(links, Seed)]>>
    /\ UNCHANGED <<now, web, cache, keyword, results, calls, fetch, netlog, isRunning,
                   analyzedPages, runs>>

NextLinks == \E links \in AnchorLists : AnalyzeLinks(links)

SpecLinks == InitLinks /\ [][NextLinks]_vars

Min(a, b) == IF a < b THEN a ELSE b

\* C26: for a page with q hrefs that are not skipped, internal + external +
\* broken = min(q, 20), whatever the number of skipped anchors before them.
C26_FirstTwentyQualifying ==
    stats # <<>> =>
        LET links == stats[1].links
            data == stats[1].linkData
            q == Cardinality({i \in 1..Len(links) : Qualifies(links[i])})
        IN  data.internal + data.external + data.broken = Min(q, 20)

(***************************************************************************)
(* SpecOverlap: two single-page analyses on the UI's checker; the second    *)
(* may start (Enter in an input field) while the first awaits its           *)
(* retrieval.                                                               *)
(***************************************************************************)
NextOverlap ==
    \/ \E c \in UiCalls, kw \in Keywords, sweep \in BOOLEAN :
            AnalyzeWebsite(c, Seed, kw, sweep)
    \/ \E c \in UiCalls, raw \in SiteRaw : AWFetched(c, raw, CheckerDocs)

SpecOverlap == InitChecker /\ [][NextOverlap]_vars

\* C24: the facts a single-page analysis returns are those of its own url,
\* its own keyword and the page served to it, whatever another analysis on
\* the same checker did in the meantime.
C24_OwnFacts ==
    \A c \in UiCalls :
        LET call == calls[c]
        IN  call.pc = "returned" =>
                \E doc \in CheckerDocs :
                    call.ret = Facts(call.url, call.keyword, ToLowerCase(call.keyword),
                                     [status |-> call.ret.status.statusCode], doc,
                                     web[Target(call.url)])

(***************************************************************************)
(* The first-party relay, api/proxy.js.  `fetch` holds the invocation of    *)
(* the handler: the request (method, query.url as <<>> or <<url>>), the     *)
(* number of upstream requests made, the upstream's answer and the          *)
(* responses sent on res; `netlog` holds the invocations that have ended.   *)
(***************************************************************************)
Methods == {"OPTIONS", "GET", "POST", "HEAD"}
RelayQueries == {<<>>, <<Malformed(<<>>)>>, <<Malformed(<<"x">>)>>, <<Seed>>}
UpstreamStatuses == {200, 204, 301, 404, 500}
Upstream == [thrown : {TRUE}, status : {0}] \cup [thrown : {FALSE}, status : UpstreamStatuses]

NoUpstream == [thrown |-> FALSE, status |-> 0]
Response(code, body) == [status |-> code, body |-> body]

RelayIdle == [pc |-> "idle", method |-> "GET", query |-> <<>>, asked |-> 0,
              up |-> NoUpstream, sent |-> <<>>]

\* the handler that passes query.url to fetch without `new URL(url)`
handler_unvalidated(method, query) ==
    LET h == [RelayIdle EXCEPT !.method = method, !.query = query]
    IN  IF method = "OPTIONS"
        THEN [h EXCEPT !.pc = "done", !.sent = <<Response(200, "empty")>>]
        ELSE IF method # "GET"
        THEN [h EXCEPT !.pc = "done", !.sent = <<Response(405, "error")>>]
        ELSE IF query = <<>> \/ Href(query[1]) = <<>>
        THEN [h EXCEPT !.pc = "done", !.sent = <<Response(400, "error")>>]
        ELSE [h EXCEPT !.pc = "upstream", !.asked = 1]

\* handler(req, res) up to its first await
handler(method, query) ==
    LET h == [RelayIdle EXCEPT !.method = method, !.query = query]
    IN  IF method = "OPTIONS"
        THEN [h EXCEPT !.pc = "done", !.sent = <<Response(200, "empty")>>]
        ELSE IF method # "GET"
        THEN [h EXCEPT !.pc = "done", !.sent = <<Response(405, "error")>>]
        ELSE IF query = <<>> \/ Href(query[1]) = <<>>       \* !url
        THEN [h EXCEPT !.pc = "done", !.sent = <<Response(400, "error")>>]
        ELSE IF ~IsUrl(query[1])                              \* new URL(url) throws
        THEN [h EXCEPT !.pc = "done", !.sent = <<Response(500, "error+message")>>]
        ELSE [h EXCEPT !.pc = "upstream", !.asked = 1]

\* a request reaches the relay
RelayRequest(method, query) ==
    /\ fetch.pc \in {"idle", "done"}
    /\ Len(netlog) + (IF fetch.pc = "done" THEN 1 ELSE 0) < MaxRequests
    /\ netlog' = IF fetch.pc = "done" THEN Append(netlog, fetch) ELSE netlog
    /\ fetch' = handler(method, query)
    /\ UNCHANGED <<now, web, cache, keyword, results, calls, isRunning, analyzedPages, runs,
                   stats>>

\* `await fetch(url, ..)` settles: the upstream threw or answered
RelayUpstream(up) ==
    /\ fetch.pc = "upstream"
    /\ fetch' = IF up.thrown \/ ~Ok(up.status)
                THEN [fetch EXCEPT !.pc = "done", !.up = up,
                                   !.sent = Append(@, Response(500, "error+message"))]
                ELSE [fetch EXCEPT !.pc = "reading", !.up = up]
    /\ UNCHANGED <<now, web, cache, keyword, results, calls, netlog, isRunning, analyzedPages,
                   runs, stats>>

\* `await response.text()` settles: the body was read (read) or the read threw
RelayBody(read) ==
    /\ fetch.pc = "reading"
    /\ fetch' = [fetch EXCEPT !.pc = "done",
                              !.sent = Append(@, IF read THEN Response(200, "envelope")
                                                 ELSE Response(500, "error+message"))]
    /\ UNCHANGED <<now, web, cache, keyword, results, calls, netlog, isRunning, analyzedPages,
                   runs, stats>>

InitRelay ==
    /\ now = 0
    /\ web = [u \in {} |-> <<>>]
    /\ cache = [k \in Checkers |-> EmptyCache]
    /\ keyword = [k \in Checkers |-> <<>>]
    /\ results = [k \in Checkers |-> NoResults]
    /\ calls = [c \in CallIds |-> IdleCall]
    /\ fetch = RelayIdle
    /\ netlog = <<>>
    /\ isRunning = FALSE
    /\ analyzedPages = <<>>
    /\ runs = [r \in RunIds |-> IdleRun]
    /\ stats = <<>>

NextRelay ==
    \/ \E method \in Methods, query \in RelayQueries : RelayRequest(method, query)
    \/ \E up \in Upstream : RelayUpstream(up)
    \/ \E read \in BOOLEAN : RelayBody(read)

SpecRelay == InitRelay /\ [][NextRelay]_vars

\* the invocations of the handler so far, the running one last
Invocations == netlog \o (IF fetch.pc = "idle" THEN <<>> ELSE <<fetch>>)

\* C29: the relay answers a request exactly once -- OPTIONS with 200, another
\* method than GET with 405, GET without url with 400, GET with a malformed
\* url with an error and without an upstream request; the 200 envelope is
\* sent only after a 2xx answer of the upstream, 500 {error, message}
\* otherwise.
C29_RelayAnswers ==
    \A i \in 1..Len(Invocations) :
        LET h == Invocations[i]
            hasUrl == h.query # <<>> /\ Href(h.query[1]) # <<>>
        IN  /\ Len(h.sent) = (IF h.pc = "done" THEN 1 ELSE 0)
            /\ h.asked <= 1
            /\ h.pc = "done" =>
                 LET r == h.sent[1]
                 IN  /\ h.method = "OPTIONS" => r = Response(200, "empty") /\ h.asked = 0
                     /\ h.method \notin {"OPTIONS", "GET"} =>
                            r = Response(405, "error") /\ h.asked = 0
                     /\ (h.method = "GET" /\ ~hasUrl) => r = Response(400, "error") /\ h.asked = 0
                     /\ (h.method = "GET" /\ hasUrl /\ ~IsUrl(h.query[1])) =>
                            r.status >= 400 /\ r.body # "envelope" /\ h.asked = 0
                     /\ r.body = "envelope" =>
                            /\ r.status = 200 /\ h.method = "GET" /\ h.asked = 1
                            /\ ~h.up.thrown /\ h.up.status \in 200..299
                     /\ (h.method = "GET" /\ hasUrl /\ r.body # "envelope") =>
                            r = Response(500, "error+message")

\* a GET for a malformed url was answered with 500, and a later GET got the
\* envelope of a 204 answer
C29_Witness ==
    /\ Len(netlog) = 1
    /\ netlog[1].method = "GET" /\ netlog[1].query = <<Malformed(<<"x">>)>>
    /\ netlog[1].sent = <<Response(500, "error+message")>> /\ netlog[1].asked = 0
    /\ fetch.pc = "done" /\ fetch.up.status = 204
    /\ fetch.sent = <<Response(200, "envelope")>>

\* C35: cleaning a cleaned heading changes nothing.
C35_Idempotent ==
    Len(stats) = 2 => stats[2].cleaned = stats[1].cleaned

\* C33: in the issue table of a result no two issues have the same message,
\* the count of an issue is at least 1 and is the length of its list of
\* URLs, and each of these URLs is the URL of a page that was analysed
\* without error; the URL of a failed page is in no issue's list.
C33_IssueTable ==
    stats # <<>> =>
        LET iss == stats[1].issues
        IN  /\ \A i, j \in 1..Len(iss) : i # j => iss[i].message # iss[j].message
            /\ \A i \in 1..Len(iss) :
                  /\ iss[i].count >= 1
                  /\ iss[i].count = Len(iss[i].pages)
                  /\ \A k \in 1..Len(iss[i].pages) :
                        \E j \in Successful(analyzedPages) :
                            /\ analyzedPages[j].url = iss[i].pages[k]
                            /\ \E n \in 1..Len(analyzedPages[j].issues) :
                                  analyzedPages[j].issues[n].message = iss[i].message
                  /\ \A j \in 1..Len(analyzedPages) :
                        analyzedPages[j].error => analyzedPages[j].url \notin Range(iss[i].pages)

\* a table built from a failed page followed by two pages that share an issue
C33_Witness ==
    /\ stats # <<>>
    /\ Len(analyzedPages) = 3
    /\ analyzedPages[1].error /\ ~analyzedPages[2].error /\ ~analyzedPages[3].error
    /\ Len(stats[1].issues) >= 2
    /\ \E i \in 1..Len(stats[1].issues) :
          stats[1].issues[i].pages = <<analyzedPages[2].url, analyzedPages[3].url>>

\* C34: a response that fetchWithCORS returns has a status code of 200..299.
C34_ReturnsOnly2xx ==
    fetch.f.pc = "returned" => fetch.f.status \in 200..299

(***************************************************************************)
(* AnalysisStorage.  `stats` holds the list stored in localStorage under    *)
(* storageKey (the newest entry first); an analysis is saved with           *)
(* id = Date.now(), and `now` advances between two saves.                   *)
(***************************************************************************)
maxSaved == 10

\* Array.prototype.slice(-n), n > 0: the last n elements
SliceLast(seq, n) == SubSeq(seq, IF Len(seq) > n THEN Len(seq) - n + 1 ELSE 1, Len(seq))

\* AnalysisStorage.saveAnalysis
saveAnalysis(saved, analysis) ==
    LET kept == IF Len(saved) >= maxSaved THEN SliceLast(saved, maxSaved - 1) ELSE saved
    IN  <<analysis>> \o kept

\* AnalysisStorage.deleteAnalysis
deleteAnalysis(saved, id) == SelectSeq(saved, LAMBDA a : a.id # id)

InitStorage ==
    /\ now = 0
    /\ web = [u \in {} |-> <<>>]
    /\ cache = [k \in Checkers |-> EmptyCache]
    /\ keyword = [k \in Checkers |-> <<>>]
    /\ results = [k \in Checkers |-> NoResults]
    /\ calls = [c \in CallIds |-> IdleCall]
    /\ fetch = NoFetchCall
    /\ netlog = <<>>
    /\ isRunning = FALSE
    /\ analyzedPages = <<>>
    /\ runs = [r \in RunIds |-> IdleRun]
    /\ stats = <<>>

\* the Save button: the analysis shown is saved
SaveAnalysis ==
    /\ now < MaxSaves
    /\ now' = now + 1
    /\ stats' = saveAnalysis(stats, [id |-> now + 1, url |-> Seed, keyword |-> <<>>,
                                     score |-> calculateScore(results["ui"])])
    /\ UNCHANGED <<web, cache, keyword, results, calls, fetch, netlog, isRunning,
                   analyzedPages, runs>>

\* the Delete button of a saved analysis
DeleteAnalysis(id) ==
    /\ \E i \in 1..Len(stats) : stats[i].id = id
    /\ stats' = deleteAnalysis(stats, id)
    /\ UNCHANGED <<now, web, cache, keyword, results, calls, fetch, netlog, isRunning,
                   analyzedPages, runs>>

\* clearAllSaved, confirmed
ClearAllSaved ==
    /\ stats # <<>>
    /\ stats' = <<>>
    /\ UNCHANGED <<now, web, cache, keyword, results, calls, fetch, netlog, isRunning,
                   analyzedPages, runs>>

NextStorage ==
    \/ SaveAnalysis
    \/ \E id \in 1..MaxSaves : DeleteAnalysis(id)
    \/ ClearAllSaved

SpecStorage == InitStorage /\ [][NextStorage]_vars

\* C31: the saved list never holds more than 10 entries, and a save onto a
\* list of 10 leaves the new analysis followed by the 9 most recently saved
\* earlier ones (the list is kept newest first).
C31_OldestRemoved ==
    [][/\ Len(stats') <= 10
       /\ (now' # now /\ Len(stats) = 10) =>
             /\ Len(stats') = 10
             /\ stats'[1].id = now'
             /\ \A i \in 1..9 : stats'[i + 1] = stats[i]
      ]_vars

(***************************************************************************)
(* SpecPublish: the sitewide UI after an earlier run over no page           *)
(* (maxPages 0) has ended and startSitewideAnalysis has published its       *)
(* statistics in currentSitewideResults; further requests follow.           *)
(* SpecPublishLive: the same when every await of a run settles: a retrieval *)
(* answers or fails, the pause between two pages elapses.                   *)
(***************************************************************************)
InitPublish ==
    /\ now = 0
    /\ web = SiteWeb
    /\ cache = [k \in Checkers |-> EmptyCache]
    /\ keyword = [k \in Checkers |-> <<>>]
    /\ results = [k \in Checkers |-> NoResults]
    /\ calls = [c \in CallIds |-> IdleCall]
    /\ fetch = NoFetchCall
    /\ netlog = <<>>
    /\ isRunning = FALSE
    /\ analyzedPages = <<>>
    /\ runs = [r \in RunIds |-> IdleRun]
    /\ stats = <<calculateSitewideStats(<<>>)>>

\* a retrieval attempt that failed
AttemptFailed == CHOOSE raw \in SiteRaw : raw.thrown

\* the steps of run r after its call: each follows an await that settled (the
\* failed attempt comes first, so that whether a step is possible is decided
\* without evaluating an extraction)
RunStep(r) ==
    \/ Crawled(r, AttemptFailed)
    \/ AWFetched(r, AttemptFailed, SiteDocs)
    \/ \E raw \in SiteRaw : Crawled(r, raw)
    \/ \E sweep \in BOOLEAN : BeginPages(r, sweep)
    \/ \E raw \in SiteRaw : AWFetched(r, raw, SiteDocs)
    \/ \E sweep \in BOOLEAN : PageDone(r, sweep)

NextPublish ==
    \/ \E kw \in SiteKeywords, maxPages \in 0..MaxSitePages :
            AnalyzeSitewide(NextRunId, Seed, kw, maxPages, FALSE)
    \/ \E r \in RunIds : RunStep(r)

SpecPublish == InitPublish /\ [][NextPublish]_vars

SpecPublishLive == InitPublish /\ [][NextPublish]_vars /\ \A r \in RunIds : WF_vars(RunStep(r))

\* C39: a sitewide request that is rejected because a run is in flight leaves
\* currentSitewideResults as it was.
C39_RejectedKeepsResults ==
    [][\A r \in RunIds :
          (runs[r].pc = "idle" /\ runs'[r].pc = "rejected") => stats' = stats]_vars

C38_SeedDeduplicated ==
    \A r \in RunIds :
        (/\ runs[r].pc = "discovered"
         /\ \/ runs[r].baseUrl.hash # <<>>
            \/ \E i \in 1..Len(runs[r].baseUrl.query) :
                    runs[r].baseUrl.query[i] \in paramsToRemove) =>
            \A i, j \in 1..Len(runs[r].internalUrls) :
                cleanUrl(runs[r].internalUrls[i]) = cleanUrl(runs[r].internalUrls[j]) => i = j

\* the orders in which the pages of a list can have been processed
Reorderings(pages) ==
    { [i \in 1..Len(pages) |-> pages[q[i]]] :
        q \in { f \in [1..Len(pages) -> 1..Len(pages)] :
                    \A i, j \in 1..Len(pages) : f[i] = f[j] => i = j } }

\* the messages of a ranked issue list, in its order
Ranking(issues) == [i \in 1..Len(issues) |-> issues[i].message]

\* C40: the ranked issue list of a result (which issues, in what order) is the
\* same for every order in which the same pages were processed.
C40_RankingOrderIndependent ==
    stats # <<>> =>
        \A pages \in Reorderings(analyzedPages) :
            Ranking(calculateSitewideStats(pages).issues) = Ranking(stats[1].issues)

\* C37: an analyzeWebsite call that fails stores nothing in the cache, and the
\* next call with the same url and keyword goes to retrieval again.
C37_FailureNotCached ==
    [][\A c \in UiCalls :
          /\ (calls[c].pc = "fetching" /\ calls'[c].pc = "thrown") => cache' = cache
          /\ (/\ calls[c].pc = "thrown"
              /\ calls'[c] # calls[c]
              /\ calls'[c].url = calls[c].url
              /\ calls'[c].keyword = calls[c].keyword) => calls'[c].pc = "fetching"
      ]_vars

\* an analysis of a well-formed URL failed while an entry of an earlier,
\* successful analysis of it, since expired, is in the cache
C37_Witness ==
    \E c \in UiCalls :
        /\ calls[c].pc = "thrown"
        /\ IsUrl(calls[c].url)
        /\ cacheKey(calls[c].url, calls[c].keyword) \in DOMAIN cache[CheckerOf(c)]

(***************************************************************************)
(* SpecKeys: single-page analyses of two pages and two keywords that hold   *)
(* the '-' character.                                                       *)
(***************************************************************************)
KeyUrls == {PageP, Url(HostA, PathP \o <<"-", "K">>, <<>>, <<>>)}
KeyKeywords == {<<"K">>, <<"K", "-", "K">>}
KeyWeb == [t \in {Target(u) : u \in KeyUrls} |-> <<>>]

InitKeys ==
    /\ now = 0
    /\ web = KeyWeb
    /\ cache = [k \in Checkers |-> EmptyCache]
    /\ keyword = [k \in Checkers |-> <<>>]
    /\ results = [k \in Checkers |-> NoResults]
    /\ calls = [c \in CallIds |-> IdleCall]
    /\ fetch = NoFetchCall
    /\ netlog = <<>>
    /\ isRunning = FALSE
    /\ analyzedPages = <<>>
    /\ runs = [r \in RunIds |-> IdleRun]
    /\ stats = <<>>

NextKeys ==
    \/ \E url \in KeyUrls, kw \in KeyKeywords, sweep \in BOOLEAN :
            AnalyzeWebsite("u1", url, kw, sweep)
    \/ \E raw \in SiteRaw : AWFetched("u1", raw, CheckerDocs)

SpecKeys == InitKeys /\ [][NextKeys]_vars

\* C36: what analyzeWebsite(url, keyword) returns, from the cache or not, are
\* facts of that url and that keyword, also when either holds a '-'.
C36_KeyedByPair ==
    \A c \in UiCalls :
        calls[c].pc = "returned" =>
            /\ calls[c].ret.url = calls[c].url
            /\ calls[c].ret.keyword = calls[c].keyword

====
